---- MODULE Spec2Model ----
(***************************************************************************)
(* The health watchdog of ingestor_scrapper (package health): config,      *)
(* checks, store, runner and notify, as state machines.                    *)
(*                                                                         *)
(* Python dicts with optional keys are modelled as records whose optional  *)
(* keys are sets with at most one element ({} = key absent).               *)
(*                                                                         *)
(* The environment can fail where the code handles or documents failure:   *)
(* the config file (missing, unparsable), the fetch, reading metrics.json  *)
(* (load_metrics then gives {}), writing it (swallowed by save_metrics, or *)
(* mkdir raising out of it) and each notification channel (caught, "not    *)
(* sent"). Config values have the types the schema comment of config.py    *)
(* gives them, and writing to the console succeeds.                        *)
(***************************************************************************)
EXTENDS Integers, Sequences, FiniteSets, TLC

VARIABLES
    store,  \* the metrics.json file: [ok: parsable?, data: site_id -> record]
    run,    \* run[p]: the state of process p's run_health_check invocation
    runs,   \* number of run_health_check invocations started so far
    cls,    \* harness applying _determine_level to one (summary, historical)
    store2, \* the metrics.json file of the second run of a compared pair
    calls   \* what a caller of the store's functions has done so far

vars == <<store, run, runs, cls, store2, calls>>

\* ------------------------------------------------------------------ bounds

\* number of run_health_check invocations explored in one behaviour
MaxRuns == 2

\* number of update_metrics calls explored in one behaviour
MaxCalls == 3

\* largest content size, in bytes, given to compare_with_history
MaxSize == 4

\* ------------------------------------------------------ sample input data

\* Text is a sequence of character codes: 1..9 are lower-case letters and
\* 11..19 the same letters in upper case.
LowerChar(ch) == IF ch > 10 THEN ch - 10 ELSE ch

\* str.lower()
Lower(s) == [i \in 1..Len(s) |-> LowerChar(s[i])]

\* Python's `needle in haystack` for strings
IsSubstring(needle, hay) ==
    \E i \in 0..(Len(hay) - Len(needle)) :
        \A j \in 1..Len(needle) : hay[i + j] = needle[j]

\* Response header mappings returned by fetch: without and with Content-Type
\* ("Ab").
HeaderSamples == { [content_type |-> {}], [content_type |-> {<<11, 2>>}] }

\* A fetched body: its bytes, and what the external parsers (BeautifulSoup /
\* substring search, csv.DictReader, openpyxl) report for these bytes:
\* sels = the selectors present, csv = header and data rows read by
\* DictReader ({} = the csv module raises), xlsx = the first sheet read by
\* openpyxl ({} = load_workbook raises).
ContentSamples ==
    { [bytes |-> <<>>, sels |-> {},
       csv |-> {[cols |-> <<>>, rows |-> 0]}, xlsx |-> {}],
      [bytes |-> <<3>>, sels |-> {"h1"},
       csv |-> {[cols |-> <<"a">>, rows |-> 0]}, xlsx |-> {}],
      [bytes |-> <<3, 1>>, sels |-> {"h1", "table"},
       csv |-> {[cols |-> <<"a", "b">>, rows |-> 1]},
       xlsx |-> {[cols |-> <<"a">>, max_row |-> 2]}],
      [bytes |-> <<3, 1, 4, 1, 5>>, sels |-> {"h1", "table"},
       csv |-> {[cols |-> <<"b", "a">>, rows |-> 2]},
       xlsx |-> {[cols |-> <<"a", "b">>, max_row |-> 3]}] }

\* A body neither csv.DictReader nor openpyxl can read (a field longer than
\* the csv field size limit, a NUL byte).
UnparsableBody == [bytes |-> <<5, 5, 5>>, sels |-> {}, csv |-> {}, xlsx |-> {}]

\* HTTP status codes returned by fetch
StatusSamples == {200, 300}

\* ----------------------------------------------------------- health/checks

check_status(status_code) == 200 <= status_code /\ status_code < 300

check_min_bytes(content, min_bytes) == Len(content.bytes) >= min_bytes

\* headers.get("Content-Type", "").lower() contains expected.lower()
check_content_type(headers, expected) ==
    LET value == IF headers.content_type = {} THEN <<>>
                 ELSE CHOOSE v \in headers.content_type : TRUE
    IN  IsSubstring(Lower(expected), Lower(value))

\* selector -> found
check_html_contains(content, selectors) ==
    [s \in selectors |-> s \in content.sels]

SeqToSet(s) == {s[i] : i \in 1..Len(s)}

\* Variant: the header line is counted as a data row.
SchemaVerdict_counts_header(found_columns, row_count, expected_columns, min_rows) ==
    LET missing == SeqToSet(expected_columns) \ SeqToSet(found_columns)
        cols_ok == missing = {}
        rows_ok == \A m \in min_rows : row_count + 1 >= m
    IN  [valid |-> cols_ok /\ rows_ok,
         missing_columns |-> missing,
         row_count |-> row_count + 1,
         row_count_valid |-> rows_ok,
         error |-> ~rows_ok,
         skipped |-> FALSE]

\* The schema verdict shared by the csv and the excel check once the header
\* and the row count are known (checks.py 252-268 and 335-351).
SchemaVerdict(found_columns, row_count, expected_columns, min_rows) ==
    LET missing == SeqToSet(expected_columns) \ SeqToSet(found_columns)
        cols_ok == missing = {}
        rows_ok == \A m \in min_rows : row_count >= m
    IN  [valid |-> cols_ok /\ rows_ok,
         missing_columns |-> missing,
         row_count |-> row_count,
         row_count_valid |-> rows_ok,
         error |-> ~rows_ok,
         skipped |-> FALSE]

\* Variant: a body the csv module cannot read is reported as an empty table
\* that passed.
check_csv_schema_error_is_valid(content, expected_columns, min_rows) ==
    IF expected_columns = <<>> /\ min_rows = {}
    THEN [valid |-> TRUE, missing_columns |-> {}, row_count |-> 0,
          row_count_valid |-> TRUE, error |-> FALSE, skipped |-> FALSE]
    ELSE IF content.csv = {}
    THEN [valid |-> TRUE, missing_columns |-> {}, row_count |-> 0,
          row_count_valid |-> TRUE, error |-> FALSE, skipped |-> FALSE]
    ELSE LET table == CHOOSE t \in content.csv : TRUE
         IN  SchemaVerdict(table.cols, table.rows, expected_columns, min_rows)

\* min_rows is {} for None, {m} otherwise. The csv result has no "skipped"
\* key; the record carries the default the classifier reads for it (False).
\* An exception of the csv module is caught: the result keeps its initial
\* valid = False and gets an error.
check_csv_schema(content, expected_columns, min_rows) ==
    IF expected_columns = <<>> /\ min_rows = {}
    THEN [valid |-> TRUE, missing_columns |-> {}, row_count |-> 0,
          row_count_valid |-> TRUE, error |-> FALSE, skipped |-> FALSE]
    ELSE IF content.csv = {}
    THEN [valid |-> FALSE, missing_columns |-> {}, row_count |-> 0,
          row_count_valid |-> TRUE, error |-> TRUE, skipped |-> FALSE]
    ELSE LET table == CHOOSE t \in content.csv : TRUE
         IN  SchemaVerdict(table.cols, table.rows, expected_columns, min_rows)

check_excel_schema(has_openpyxl, content, expected_columns, min_rows) ==
    IF ~has_openpyxl
    THEN [valid |-> FALSE, missing_columns |-> {}, row_count |-> 0,
          row_count_valid |-> TRUE, error |-> TRUE, skipped |-> TRUE]
    ELSE IF expected_columns = <<>> /\ min_rows = {}
    THEN [valid |-> TRUE, missing_columns |-> {}, row_count |-> 0,
          row_count_valid |-> TRUE, error |-> FALSE, skipped |-> FALSE]
    ELSE IF content.xlsx = {}
    THEN [valid |-> FALSE, missing_columns |-> {}, row_count |-> 0,
          row_count_valid |-> TRUE, error |-> TRUE, skipped |-> FALSE]
    ELSE LET sheet == CHOOSE s \in content.xlsx : TRUE
         IN  SchemaVerdict(sheet.cols, sheet.max_row - 1,
                           expected_columns, min_rows)

\* hashlib.sha256(content).hexdigest(): a deterministic digest of the exact
\* bytes, injective on the sampled bodies (bytes are below 6).
RECURSIVE DigestOf(_)
DigestOf(bytes) ==
    IF bytes = <<>> THEN 1
    ELSE 7 * DigestOf(SubSeq(bytes, 1, Len(bytes) - 1)) + bytes[Len(bytes)] + 1

checksum_sha256(content) == DigestOf(content.bytes)

\* ----------------------------------------------------------- health/runner

\* dict.get with a falsy test: a list is truthy iff non-empty, an int iff
\* non-zero.
Truthy(seq_or_none) == seq_or_none # <<>>

_run_checks_for_type(site_config, has_openpyxl, content, headers, status_code) ==
    LET wants_schema == Truthy(site_config.expected_columns)
                        \/ site_config.min_rows # 0
        schema ==
            IF site_config.type = "csv"
            THEN check_csv_schema(content, site_config.expected_columns,
                                  {site_config.min_rows})
            ELSE check_excel_schema(has_openpyxl, content,
                                    site_config.expected_columns,
                                    {site_config.min_rows})
        has_schema == site_config.type \in {"csv", "excel"} /\ wants_schema
        sel == check_html_contains(content, SeqToSet(site_config.selectors))
    IN  [status_code |-> status_code,
         size_bytes |-> Len(content.bytes),
         checks |->
            [status |-> check_status(status_code),
             min_bytes |-> check_min_bytes(content, site_config.min_bytes),
             content_type |->
                IF \E e \in site_config.content_type : Truthy(e)
                THEN {check_content_type(headers,
                        CHOOSE e \in site_config.content_type : TRUE)}
                ELSE {},
             html_selectors |->
                IF site_config.type = "html" /\ Truthy(site_config.selectors)
                THEN {[valid |-> \A s \in DOMAIN sel : sel[s]]}
                ELSE {},
             schema |-> IF has_schema THEN {schema} ELSE {}],
         row_count |-> IF has_schema THEN {schema.row_count} ELSE {}]

\* Variant: the historical signals are tested before the hard failures.
_determine_level_warn_first(summary, historical) ==
    LET c == summary.checks
    IN  IF historical.anomaly \/ historical.size_dropped_50pct THEN "WARN"
        ELSE IF ~c.status \/ ~c.min_bytes THEN "FAIL"
        ELSE IF \E s \in c.schema : ~s.valid /\ ~s.skipped THEN "FAIL"
        ELSE IF \E h \in c.html_selectors : ~h.valid THEN "FAIL"
        ELSE "INFO"

\* Variant: the `skipped` flag of a schema result is not consulted.
_determine_level_skipped_fails(summary, historical) ==
    LET c == summary.checks
    IN  IF ~c.status THEN "FAIL"
        ELSE IF ~c.min_bytes THEN "FAIL"
        ELSE IF \E s \in c.schema : ~s.valid THEN "FAIL"
        ELSE IF \E h \in c.html_selectors : ~h.valid THEN "FAIL"
        ELSE IF historical.anomaly THEN "WARN"
        ELSE IF historical.size_dropped_50pct THEN "WARN"
        ELSE "INFO"

_determine_level(summary, historical) ==
    LET c == summary.checks
    IN  IF ~c.status THEN "FAIL"
        ELSE IF ~c.min_bytes THEN "FAIL"
        ELSE IF \E s \in c.schema : ~s.valid /\ ~s.skipped THEN "FAIL"
        ELSE IF \E h \in c.html_selectors : ~h.valid THEN "FAIL"
        ELSE IF historical.anomaly THEN "WARN"
        ELSE IF historical.size_dropped_50pct THEN "WARN"
        ELSE "INFO"

\* Variant: WARN is mapped like an unknown level.
ExitCode_warn_zero(level) == IF level = "FAIL" THEN 3 ELSE 0

\* runner.py 111-112, the dry-run branch: exit_codes = {"INFO": 0,
\* "WARN": 2, "FAIL": 3}; exit_code = exit_codes.get(level, 0)
ExitCode(level) ==
    IF level = "INFO" THEN 0
    ELSE IF level = "WARN" THEN 2
    ELSE IF level = "FAIL" THEN 3
    ELSE 0

\* ----------------------------------------------------------- health/config

valid_types == {"html", "csv", "excel", "pdf", "binary"}

\* A value as json.load returns it: a record whose one field is named after
\* the Python type and holds the value.
JStr(s) == [str |-> s]
JInt(i) == [int |-> i]
JBool(b) == [bool |-> b]
JList(l) == [list |-> l]
JDict(d) == [dict |-> d]
JNull == [null |-> "None"]

\* type(value) and the value itself
Kind(x) == CHOOSE k \in DOMAIN x : TRUE
Val(x) == x[Kind(x)]

\* A site entry with no key at all. The keys of a dict are sets with at most
\* one element (the key is absent, or it has a value).
NoKeys ==
    [url |-> {}, type |-> {}, selectors |-> {}, min_bytes |-> {},
     expected_columns |-> {}, min_rows |-> {}, content_type |-> {},
     verify_ssl |-> {}, checksum_window |-> {}, notify |-> {}]

\* The "notify" dict of an entry
NotifyDict(email_env, slack_webhook_env) ==
    JDict([email_env |-> email_env, slack_webhook_env |-> slack_webhook_env])

\* The parsed config file: site_id -> raw entry.
RawConfig ==
    [s \in {"web", "feed", "book", "doc", "bad"} |->
        IF s = "web" THEN
            JDict([NoKeys EXCEPT
                !.url = {JStr("u1")}, !.type = {JStr("html")},
                !.selectors = {JList(<<"h1", "table">>)},
                !.min_bytes = {JInt(1)}, !.content_type = {JStr(<<1>>)},
                !.checksum_window = {JInt(1)},
                !.notify = {NotifyDict({"MAIL"}, {"HOOK"})}])
        ELSE IF s = "feed" THEN
            JDict([NoKeys EXCEPT
                !.url = {JStr("u2")}, !.type = {JStr("csv")},
                !.expected_columns = {JList(<<"a", "b">>)},
                !.min_rows = {JInt(1)}, !.checksum_window = {JInt(2)},
                !.notify = {NotifyDict({}, {"HOOK"})}])
        ELSE IF s = "book" THEN
            JDict([NoKeys EXCEPT
                !.url = {JStr("u3")}, !.type = {JStr("excel")},
                !.expected_columns = {JList(<<"a", "b">>)},
                !.notify = {NotifyDict({"MAIL"}, {})}])
        ELSE IF s = "doc" THEN
            JDict([NoKeys EXCEPT
                !.url = {JStr("u4")}, !.type = {JStr("pdf")},
                !.min_bytes = {JInt(2)}, !.checksum_window = {JInt(2)}])
        ELSE
            JDict([NoKeys EXCEPT
                !.url = {JStr("u5")}, !.type = {JStr("json")}])]

\* dict.get(key, default) on an optional key
GetOr(opt, default) == IF opt = {} THEN default ELSE CHOOSE v \in opt : TRUE

\* isinstance(value, int): bool is a subclass of int
IsInt(x) == Kind(x) \in {"int", "bool"}

\* The number a value that passed isinstance(value, int) stands for
\* (True is 1 and False is 0 in every comparison and slice).
IntOf(x) == IF Kind(x) = "bool" THEN (IF Val(x) THEN 1 ELSE 0) ELSE Val(x)

\* bool(value) is False
Falsy(x) ==
    \/ Kind(x) = "null"
    \/ Kind(x) = "int" /\ Val(x) = 0
    \/ Kind(x) = "bool" /\ ~Val(x)
    \/ Kind(x) \in {"str", "list"} /\ Len(Val(x)) = 0
    \/ Kind(x) = "dict" /\ \A key \in DOMAIN Val(x) : Val(x)[key] = {}

\* Variant: the content kind is not looked at.
SiteConfigInvalid_accepts_any_type(config) ==
    \/ Kind(config) # "dict"
    \/ Val(config).url = {}
    \/ \E u \in Val(config).url : Kind(u) # "str"
    \/ Val(config).type = {}
    \/ \E t \in Val(config).type : Kind(t) # "str"
    \/ \E x \in Val(config).selectors : Kind(x) # "list"
    \/ \E x \in Val(config).min_bytes : ~IsInt(x)
    \/ \E x \in Val(config).expected_columns : Kind(x) # "list"
    \/ \E x \in Val(config).min_rows : ~IsInt(x)
    \/ \E x \in Val(config).content_type : ~Falsy(x) /\ Kind(x) # "str"
    \/ \E x \in Val(config).verify_ssl : Kind(x) # "bool"
    \/ \E x \in Val(config).checksum_window : ~IsInt(x)
    \/ \E x \in Val(config).notify : Kind(x) # "dict"

\* TRUE iff _validate_site_config raises ValueError
SiteConfigInvalid(config) ==
    \/ Kind(config) # "dict"
    \/ Val(config).url = {}
    \/ \E u \in Val(config).url : Kind(u) # "str"
    \/ Val(config).type = {}
    \/ \E t \in Val(config).type :
          Kind(t) # "str" \/ Val(t) \notin valid_types
    \/ \E x \in Val(config).selectors : Kind(x) # "list"
    \/ \E x \in Val(config).min_bytes : ~IsInt(x)
    \/ \E x \in Val(config).expected_columns : Kind(x) # "list"
    \/ \E x \in Val(config).min_rows : ~IsInt(x)
    \/ \E x \in Val(config).content_type : ~Falsy(x) /\ Kind(x) # "str"
    \/ \E x \in Val(config).verify_ssl : Kind(x) # "bool"
    \/ \E x \in Val(config).checksum_window : ~IsInt(x)
    \/ \E x \in Val(config).notify : Kind(x) # "dict"

\* The dict _validate_site_config returns for an entry it accepts. A
\* content_type that is falsy is kept as "no content type": the only reader
\* tests its truth before using it.
_validate_site_config(config) ==
    [url |-> Val(GetOr(Val(config).url, JStr(""))),
     type |-> Val(GetOr(Val(config).type, JStr(""))),
     selectors |-> Val(GetOr(Val(config).selectors, JList(<<>>))),
     min_bytes |-> IntOf(GetOr(Val(config).min_bytes, JInt(0))),
     expected_columns |->
         Val(GetOr(Val(config).expected_columns, JList(<<>>))),
     min_rows |-> IntOf(GetOr(Val(config).min_rows, JInt(0))),
     content_type |->
         {Val(x) : x \in {y \in Val(config).content_type : ~Falsy(y)}},
     verify_ssl |-> Val(GetOr(Val(config).verify_ssl, JBool(TRUE))),
     checksum_window |-> IntOf(GetOr(Val(config).checksum_window, JInt(10))),
     notify |-> Val(GetOr(Val(config).notify, NotifyDict({}, {})))]

\* Variant: an entry that fails validation is kept.
load_config_keeps_invalid(data) ==
    [s \in {t \in DOMAIN data : Kind(data[t]) = "dict"} |->
        _validate_site_config(data[s])]

\* load_config on a parsable file: the entries that validate
load_config(data) ==
    [s \in {t \in DOMAIN data : ~SiteConfigInvalid(data[t])} |->
        _validate_site_config(data[s])]

\* What opening and parsing the config file can give.
ConfigFileStates == {"ok", "missing", "unparsable"}

\* ------------------------------------------------------------ health/store

\* load_metrics: the file's map, or {} when the file is missing, unreadable
\* or unparsable (readable = FALSE).
load_metrics(file, readable) ==
    IF file.ok /\ readable THEN file.data ELSE << >>

\* all_metrics.get(site_id, {}) as an optional record
get_site_metrics(all_metrics, site_id) ==
    IF site_id \in DOMAIN all_metrics THEN {all_metrics[site_id]} ELSE {}

\* Python's history[-w:]
SliceLast(history, w) ==
    LET n == Len(history)
        first == IF w > 0 THEN (IF w >= n THEN 1 ELSE n - w + 1)
                 ELSE IF w = 0 THEN 1
                 ELSE (IF -w >= n THEN n + 1 ELSE 1 - w)
    IN  SubSeq(history, first, n)

\* Variant: the history read is dropped, the new one holds the checksum only.
UpdatedSiteMetrics_restarts_history(all_metrics, site_id, checksum, size, rowcount, checksum_window) ==
    [checksum |-> checksum,
     last_size |-> size,
     last_rowcount |-> rowcount,
     history_checksums |-> <<checksum>>]

\* Variant: the checksum is appended without looking at the last entry.
UpdatedSiteMetrics_always_appends(all_metrics, site_id, checksum, size, rowcount, checksum_window) ==
    LET old == get_site_metrics(all_metrics, site_id)
        old_history == IF old = {} THEN <<>>
                       ELSE (CHOOSE r \in old : TRUE).history_checksums
        appended == Append(old_history, checksum)
    IN  [checksum |-> checksum,
         last_size |-> size,
         last_rowcount |-> rowcount,
         history_checksums |-> IF Len(appended) > checksum_window
                               THEN SliceLast(appended, checksum_window)
                               ELSE appended]

\* store.py 113-134: the site's record after the update
UpdatedSiteMetrics(all_metrics, site_id, checksum, size, rowcount, checksum_window) ==
    LET old == get_site_metrics(all_metrics, site_id)
        old_history == IF old = {} THEN <<>>
                       ELSE (CHOOSE r \in old : TRUE).history_checksums
        old_rowcount == IF old = {} THEN {}
                        ELSE (CHOOSE r \in old : TRUE).last_rowcount
        appended == IF old_history = <<>>
                       \/ old_history[Len(old_history)] # checksum
                    THEN Append(old_history, checksum)
                    ELSE old_history
        history == IF Len(appended) > checksum_window
                   THEN SliceLast(appended, checksum_window)
                   ELSE appended
    IN  [checksum |-> checksum,
         last_size |-> size,
         last_rowcount |-> IF rowcount # {} THEN rowcount ELSE old_rowcount,
         history_checksums |-> history]

\* store.py 137: all_metrics[site_id] = site_metrics
PutSite(all_metrics, site_id, site_metrics) ==
    [s \in DOMAIN all_metrics \cup {site_id} |->
        IF s = site_id THEN site_metrics ELSE all_metrics[s]]

\* What save_metrics can do: "ok" writes the whole map; "open_error" (open
\* raises, swallowed) leaves the file as it was; "dump_error" (the write
\* fails after the truncating open, swallowed) leaves an unparsable file;
\* "mkdir_error" raises out of save_metrics before anything is written.
WriteOutcomes == {"ok", "open_error", "dump_error", "mkdir_error"}

save_metrics(file, metrics, outcome) ==
    IF outcome = "ok" THEN [ok |-> TRUE, data |-> metrics]
    ELSE IF outcome = "dump_error" THEN [ok |-> FALSE, data |-> << >>]
    ELSE file

\* store.py 89-140 as one call: readable is whether load_metrics can read
\* the file, outcome what save_metrics does. `loaded` is the map read,
\* `returned` the site's record when the call returns, `raised` whether an
\* exception leaves it, `file` the metrics.json file afterwards.
update_metrics(file, site_id, checksum, size, rowcount, checksum_window, readable, outcome) ==
    LET all_metrics == load_metrics(file, readable)
        site_metrics == UpdatedSiteMetrics(all_metrics, site_id, checksum,
                                           size, rowcount, checksum_window)
    IN  [loaded |-> all_metrics,
         returned |-> IF outcome = "mkdir_error" THEN {} ELSE {site_metrics},
         raised |-> outcome = "mkdir_error",
         file |-> save_metrics(file,
                               PutSite(all_metrics, site_id, site_metrics),
                               outcome)]

AllClear ==
    [changed |-> FALSE, size_change_pct |-> [num |-> 0, den |-> 1],
     size_dropped_50pct |-> FALSE, anomaly |-> FALSE]

\* Variant: the threshold test is `change_pct <= -50`.
compare_with_history_flags_half(current_size, current_checksum, historical) ==
    IF historical = {} THEN AllClear
    ELSE LET h == CHOOSE r \in historical : TRUE
             changed == h.checksum # current_checksum
             pct == IF h.last_size > 0
                    THEN [num |-> (current_size - h.last_size) * 100,
                          den |-> h.last_size]
                    ELSE [num |-> 0, den |-> 1]
             dropped == h.last_size > 0 /\ pct.num <= (-50) * pct.den
         IN  [changed |-> changed, size_change_pct |-> pct,
              size_dropped_50pct |-> dropped,
              anomaly |-> changed /\ dropped]

\* store.py 180-207 on the record get_site_metrics gave. size_change_pct is
\* the exact fraction num/den; the float the code computes compares with -50
\* the same way for every size below 2^50.
compare_with_history(current_size, current_checksum, historical) ==
    IF historical = {} THEN AllClear
    ELSE LET h == CHOOSE r \in historical : TRUE
             changed == h.checksum # current_checksum
             pct == IF h.last_size > 0
                    THEN [num |-> (current_size - h.last_size) * 100,
                          den |-> h.last_size]
                    ELSE [num |-> 0, den |-> 1]
             dropped == h.last_size > 0 /\ pct.num < (-50) * pct.den
         IN  [changed |-> changed, size_change_pct |-> pct,
              size_dropped_50pct |-> dropped,
              anomaly |-> changed /\ dropped]

Procs == {1, 2}

EmptyStore == [ok |-> TRUE, data |-> << >>]

\* No store function has been called directly.
NoCalls == [n |-> 0]

\* ----------------------------------------------------------- health/notify

\* os.environ.get(name): {} = unset, {<<>>} = set to the empty string
EnvValues == { {}, {<<>>}, {<<1>>} }

\* `if email_address:` / `if webhook_url:` -- not None and not empty
Resolved(value) == value # {} /\ value # {<<>>}

\* What the transport of a channel does when it is used: the message goes
\* out, the transport reports a failure, or it raises.
ChannelResults == {"sent", "returned_false", "raised"}

\* notify.py 113-135: True after the message went out; `except Exception`
\* turns every failure of the SMTP conversation into False.
_send_email(result) == result = "sent"

\* notify.py 153-157, 186-197: True after a 2xx answer; a missing requests
\* library, a transport error or an error status give False.
_send_slack_webhook(result) == result = "sent"

\* notify.py 50-52: exit_codes = {"INFO": 0, "WARN": 2, "FAIL": 3};
\* exit_code = exit_codes.get(level, 0)
exit_codes(level) ==
    IF level = "INFO" THEN 0
    ELSE IF level = "WARN" THEN 2
    ELSE IF level = "FAIL" THEN 3
    ELSE 0

\* ---------------------------------------------- run_health_check, stepwise

\* The site ids a caller asks for: the configured ones, the malformed entry
\* and one the file does not hold.
RequestedSites == DOMAIN RawConfig \cup {"ghost"}

\* What one invocation did: fetch calls, update_metrics calls, whether
\* update_metrics returned, the outcome of each save_metrics, the level of
\* each notify call, the channel attempts in order, console reports.
NoLog == [fetches |-> 0, updates |-> 0, update_returned |-> FALSE,
          saves |-> <<>>, notify_calls |-> <<>>, attempts |-> <<>>,
          notify_returns |-> <<>>, prints |-> 0]

NewRun(site_id, dry_run, file) ==
    [pc |-> "load", site_id |-> site_id, dry_run |-> dry_run,
     store0 |-> file, site_config |-> {}, fetch_ok |-> FALSE,
     summary |-> {}, checksum |-> 0, size |-> 0, historical |-> {},
     level |-> "none", loaded |-> {}, all_metrics |-> {},
     notify_level |-> "none",
     email_address |-> {}, webhook_url |-> {},
     exit_code |-> {}, raised |-> FALSE, log |-> NoLog,
     previous |-> "none"]

IdleRun == [NewRun("", FALSE, EmptyStore) EXCEPT !.pc = "idle"]

\* The invocation r follows the invocation prev of the same caller;
\* `previous` remembers the level prev gave the site r is about.
After(prev, r) ==
    [r EXCEPT !.previous = IF prev.site_id = r.site_id THEN prev.level
                           ELSE "none"]

\* `return code`
Return(r, code) == [r EXCEPT !.pc = "done", !.exit_code = {code}]

\* Variant: no top-level handler, the exception leaves run_health_check.
Raise_propagates(r) == [r EXCEPT !.pc = "done", !.raised = TRUE]

\* an exception reaching runner.py 116-118: `except Exception: return 3`
Raise(r) == [r EXCEPT !.pc = "done", !.exit_code = {3}, !.raised = TRUE]

\* notify.notify(..., level=level) is entered
CallNotify(r, level) ==
    [r EXCEPT !.pc = "email", !.notify_level = level,
              !.log.notify_calls = Append(@, level)]

\* _print_stdout
PrintStdout(r) == [r EXCEPT !.log.prints = @ + 1]

\* runner.py 31-36. file is what opening and parsing the config file gives.
StepLoad(r, file) ==
    IF file # "ok" THEN Raise(r)
    ELSE LET all_configs == load_config(RawConfig) IN
         IF r.site_id \notin DOMAIN all_configs THEN Return(r, 3)
         ELSE [r EXCEPT !.pc = "fetch",
                        !.site_config = {all_configs[r.site_id]}]

\* Variant: the failure notification is sent in a dry run too.
FetchFailed_ignores_dry_run(r) ==
    [r EXCEPT !.pc = "email", !.notify_level = "FAIL",
              !.log.notify_calls = Append(@, "FAIL")]

\* runner.py 49-64: checks.fetch raised
FetchFailed(r) ==
    IF ~r.dry_run THEN CallNotify(r, "FAIL") ELSE Return(r, 3)

\* runner.py 46-48, 67-73: checks.fetch returned; the checks and the checksum
FetchReturned(r, content, headers, status_code, has_openpyxl) ==
    [r EXCEPT !.pc = "compare", !.fetch_ok = TRUE,
              !.summary = {_run_checks_for_type(
                               CHOOSE c \in r.site_config : TRUE,
                               has_openpyxl, content, headers, status_code)},
              !.checksum = checksum_sha256(content),
              !.size = Len(content.bytes)]

\* What checks.fetch can give: an exception, or a response (with the
\* process's openpyxl capability, which the checks on it depend on).
FetchResults ==
    { [ok |-> FALSE] } \cup
    [ok : {TRUE}, content : ContentSamples, headers : HeaderSamples,
     status_code : StatusSamples, has_openpyxl : BOOLEAN]

\* Variant: a failed fetch is treated as an empty body and goes on through
\* the comparison and the history update.
StepFetch_failure_as_empty_body(r, res) ==
    LET fetched == [r EXCEPT !.log.fetches = @ + 1] IN
    IF ~res.ok
    THEN [FetchReturned(fetched, CHOOSE c \in ContentSamples : c.bytes = <<>>,
                        [content_type |-> {}], 0, FALSE)
             EXCEPT !.fetch_ok = FALSE]
    ELSE FetchReturned(fetched, res.content, res.headers, res.status_code,
                       res.has_openpyxl)

StepFetch(r, res) ==
    LET fetched == [r EXCEPT !.log.fetches = @ + 1] IN
    IF ~res.ok THEN FetchFailed(fetched)
    ELSE FetchReturned(fetched, res.content, res.headers, res.status_code,
                       res.has_openpyxl)

\* Variant: the comparison is made after the update, against the record the
\* run itself writes.
StepCompare_reads_own_record(r, file, readable) ==
    LET cfg == CHOOSE c \in r.site_config : TRUE
        summary == CHOOSE s \in r.summary : TRUE
        own == UpdatedSiteMetrics(load_metrics(file, readable), r.site_id,
                                  r.checksum, r.size, summary.row_count,
                                  cfg.checksum_window)
        historical == compare_with_history(r.size, r.checksum, {own})
    IN  [r EXCEPT !.pc = "update_read",
                  !.historical = {historical},
                  !.level = _determine_level(summary, historical)]

\* runner.py 76-82: compare_with_history reads the file; then the level
StepCompare(r, file, readable) ==
    LET historical == compare_with_history(r.size, r.checksum,
                get_site_metrics(load_metrics(file, readable), r.site_id))
    IN  [r EXCEPT !.pc = "update_read",
                  !.historical = {historical},
                  !.level = _determine_level(CHOOSE s \in r.summary : TRUE,
                                             historical)]

\* runner.py 85-92, store.py 111-137: update_metrics reads the file and
\* builds the new map
StepUpdateRead(r, file, readable) ==
    LET cfg == CHOOSE c \in r.site_config : TRUE
        summary == CHOOSE s \in r.summary : TRUE
        all_metrics == load_metrics(file, readable)
        site_metrics == UpdatedSiteMetrics(all_metrics, r.site_id,
                            r.checksum, r.size, summary.row_count,
                            cfg.checksum_window)
    IN  [r EXCEPT !.pc = "update_write",
                  !.log.updates = @ + 1,
                  !.loaded = {all_metrics},
                  !.all_metrics = {PutSite(all_metrics, r.site_id,
                                           site_metrics)}]

\* Variant: a dry run goes through notify as well.
Report_dry_also_notifies(r) ==
    [r EXCEPT !.pc = "email", !.notify_level = r.level,
              !.log.notify_calls = Append(@, r.level)]

\* Variant: a dry run keeps the initial exit_code = 0.
Report_dry_returns_zero(r) ==
    IF ~r.dry_run
    THEN [r EXCEPT !.pc = "email", !.notify_level = r.level,
                   !.log.notify_calls = Append(@, r.level)]
    ELSE [r EXCEPT !.pc = "done", !.exit_code = {0}, !.log.prints = @ + 1]

\* runner.py 95-112: after update_metrics returned, notify or, in a dry run,
\* the console report and the level's exit code
Report(r) ==
    IF ~r.dry_run THEN CallNotify(r, r.level)
    ELSE Return(PrintStdout(r), ExitCode(r.level))

\* store.py 138 (save_metrics), then runner.py 95-112
StepUpdateWrite(r, outcome) ==
    LET saved == [r EXCEPT !.log.saves = Append(@, outcome)] IN
    IF outcome = "mkdir_error" THEN Raise(saved)
    ELSE Report([saved EXCEPT !.log.update_returned = TRUE])

FileAfterUpdate(r, file, outcome) ==
    save_metrics(file, CHOOSE m \in r.all_metrics : TRUE, outcome)

\* What the caller of notify does with its result: runner.py 64 returns 3
\* after a failed fetch, runner.py 98/114 returns notify's exit code.
AfterNotify(r, exit_code) ==
    IF r.fetch_ok THEN Return(r, exit_code) ELSE Return(r, 3)

\* `return exit_code` in notify (notify.py 59, 66, 71)
NotifyReturn(r, exit_code) ==
    AfterNotify([r EXCEPT !.log.notify_returns = Append(@, exit_code)],
                exit_code)

Attempt(r, channel, result, sent) ==
    [r EXCEPT !.log.attempts =
        Append(@, [channel |-> channel, result |-> result, sent |-> sent])]

\* Variant: no return after a successful email, the webhook is tried next.
StepEmail_no_early_return(r, email_value, webhook_value, result) ==
    LET cfg == CHOOSE c \in r.site_config : TRUE
        email_address == IF cfg.notify.email_env # {} THEN email_value ELSE {}
        webhook_url == IF cfg.notify.slack_webhook_env # {}
                       THEN webhook_value ELSE {}
        looked == [r EXCEPT !.pc = "webhook",
                            !.email_address = email_address,
                            !.webhook_url = webhook_url]
    IN  IF email_address # {} /\ email_address # {<<>>}
        THEN Attempt(looked, "email", result, _send_email(result))
        ELSE looked

\* Variant: an exception of the SMTP conversation leaves _send_email and
\* notify and reaches the handler of run_health_check.
StepEmail_raise_propagates(r, email_value, webhook_value, result) ==
    LET cfg == CHOOSE c \in r.site_config : TRUE
        email_address == IF cfg.notify.email_env # {} THEN email_value ELSE {}
        webhook_url == IF cfg.notify.slack_webhook_env # {}
                       THEN webhook_value ELSE {}
        looked == [r EXCEPT !.email_address = email_address,
                            !.webhook_url = webhook_url]
    IN  IF email_address # {} /\ email_address # {<<>>}
        THEN IF result = "raised"
             THEN Raise(Attempt(looked, "email", result, FALSE))
             ELSE IF result = "sent"
             THEN NotifyReturn(Attempt(looked, "email", result, TRUE),
                               exit_codes(r.notify_level))
             ELSE [Attempt(looked, "email", result, FALSE)
                      EXCEPT !.pc = "webhook"]
        ELSE [looked EXCEPT !.pc = "webhook"]

\* notify.py 40-59: both variables are read, then the email channel.
\* email_value / webhook_value are what os.environ holds; result is what the
\* SMTP conversation does if _send_email is called.
StepEmail(r, email_value, webhook_value, result) ==
    LET cfg == CHOOSE c \in r.site_config : TRUE
        email_address == IF cfg.notify.email_env # {} THEN email_value ELSE {}
        webhook_url == IF cfg.notify.slack_webhook_env # {}
                       THEN webhook_value ELSE {}
        looked == [r EXCEPT !.email_address = email_address,
                            !.webhook_url = webhook_url]
        email_sent == _send_email(result)
    IN  IF Resolved(email_address)
        THEN IF email_sent
             THEN NotifyReturn(Attempt(looked, "email", result, TRUE),
                               exit_codes(r.notify_level))
             ELSE [Attempt(looked, "email", result, FALSE)
                      EXCEPT !.pc = "webhook"]
        ELSE [looked EXCEPT !.pc = "webhook"]

\* Variant: the report is printed after a successful webhook as well.
StepWebhook_prints_after_send(r, result) ==
    IF r.webhook_url # {} /\ r.webhook_url # {<<>>}
    THEN NotifyReturn(PrintStdout(Attempt(r, "webhook", result,
                                          result = "sent")),
                      exit_codes(r.notify_level))
    ELSE NotifyReturn(PrintStdout(r), exit_codes(r.notify_level))

\* notify.py 61-71: the webhook channel, then the stdout fallback
StepWebhook(r, result) ==
    LET slack_sent == _send_slack_webhook(result) IN
    IF Resolved(r.webhook_url)
    THEN IF slack_sent
         THEN NotifyReturn(Attempt(r, "webhook", result, TRUE),
                           exit_codes(r.notify_level))
         ELSE NotifyReturn(PrintStdout(Attempt(r, "webhook", result, FALSE)),
                           exit_codes(r.notify_level))
    ELSE NotifyReturn(PrintStdout(r), exit_codes(r.notify_level))

\* ------------------------------------------------ one process running runs

Frame == UNCHANGED <<cls, store2, calls>>

\* A caller invokes run_health_check(site_id, dry_run=...).
Start(p) ==
    /\ run[p].pc \in {"idle", "done"}
    /\ runs < MaxRuns
    /\ \E site_id \in RequestedSites, dry_run \in BOOLEAN :
          run' = [run EXCEPT ![p] = After(run[p],
                                          NewRun(site_id, dry_run, store))]
    /\ runs' = runs + 1
    /\ UNCHANGED store
    /\ Frame

LoadConfig(p) ==
    /\ run[p].pc = "load"
    /\ \E file \in ConfigFileStates :
          run' = [run EXCEPT ![p] = StepLoad(run[p], file)]
    /\ UNCHANGED <<store, runs>>
    /\ Frame

Fetch(p) ==
    /\ run[p].pc = "fetch"
    /\ \E res \in FetchResults :
          run' = [run EXCEPT ![p] = StepFetch(run[p], res)]
    /\ UNCHANGED <<store, runs>>
    /\ Frame

Compare(p) ==
    /\ run[p].pc = "compare"
    /\ \E readable \in BOOLEAN :
          run' = [run EXCEPT ![p] = StepCompare(run[p], store, readable)]
    /\ UNCHANGED <<store, runs>>
    /\ Frame

UpdateRead(p) ==
    /\ run[p].pc = "update_read"
    /\ \E readable \in BOOLEAN :
          run' = [run EXCEPT ![p] = StepUpdateRead(run[p], store, readable)]
    /\ UNCHANGED <<store, runs>>
    /\ Frame

UpdateWrite(p) ==
    /\ run[p].pc = "update_write"
    /\ \E outcome \in WriteOutcomes :
          /\ store' = FileAfterUpdate(run[p], store, outcome)
          /\ run' = [run EXCEPT ![p] = StepUpdateWrite(run[p], outcome)]
    /\ UNCHANGED runs
    /\ Frame

NotifyEmail(p) ==
    /\ run[p].pc = "email"
    /\ \E email_value \in EnvValues, webhook_value \in EnvValues,
          result \in ChannelResults :
          run' = [run EXCEPT ![p] =
                    StepEmail(run[p], email_value, webhook_value, result)]
    /\ UNCHANGED <<store, runs>>
    /\ Frame

NotifyWebhook(p) ==
    /\ run[p].pc = "webhook"
    /\ \E result \in ChannelResults :
          run' = [run EXCEPT ![p] = StepWebhook(run[p], result)]
    /\ UNCHANGED <<store, runs>>
    /\ Frame

SeqProcs == {1}

Init ==
    /\ store = EmptyStore
    /\ store2 = EmptyStore
    /\ run = [p \in Procs |-> IdleRun]
    /\ runs = 0
    /\ cls = [phase |-> "off"]
    /\ calls = NoCalls

Next ==
    \E p \in SeqProcs :
        \/ Start(p)
        \/ LoadConfig(p)
        \/ Fetch(p)
        \/ Compare(p)
        \/ UpdateRead(p)
        \/ UpdateWrite(p)
        \/ NotifyEmail(p)
        \/ NotifyWebhook(p)

Spec == Init /\ [][Next]_vars

\* ------------------------------------------- the classifier applied alone

BoolOpt == { {}, {TRUE}, {FALSE} }

AllCheckReports ==
    [status : BOOLEAN, min_bytes : BOOLEAN, content_type : BoolOpt,
     html_selectors : { {} } \cup { {[valid |-> v]} : v \in BOOLEAN },
     schema : { {} } \cup
              { {[valid |-> v, skipped |-> k]} : v \in BOOLEAN, k \in BOOLEAN }]

AllComparisons ==
    [changed : BOOLEAN, size_dropped_50pct : BOOLEAN, anomaly : BOOLEAN]

ClsInit ==
    /\ cls \in [phase : {"in"}, checks : AllCheckReports,
                historical : AllComparisons, level : {"none"}]
    /\ store = EmptyStore
    /\ store2 = EmptyStore
    /\ run = [p \in Procs |-> IdleRun]
    /\ runs = 0
    /\ calls = NoCalls

Classify ==
    /\ cls.phase = "in"
    /\ cls' = [cls EXCEPT !.phase = "out",
                          !.level = _determine_level([checks |-> cls.checks],
                                                     cls.historical)]
    /\ UNCHANGED <<store, store2, run, runs, calls>>

ClsNext == Classify

SpecClassify == ClsInit /\ [][ClsNext]_vars

\* ------------------------------ a dry run and a real run on the same inputs

\* Process 1 runs with dry_run = True on the file `store`, process 2 with
\* dry_run = False on a copy `store2`; both get the same site, the same
\* config file, the same fetch result and the same file-system outcomes.
\* The channels of process 2 succeed, fail or are unset independently.
TwinStart ==
    /\ \A p \in Procs : run[p].pc \in {"idle", "done"}
    /\ runs < MaxRuns
    /\ \E site_id \in RequestedSites :
          run' = [p \in Procs |->
                    After(run[p], NewRun(site_id, p = 1, store))]
    /\ store2' = store
    /\ runs' = runs + 1
    /\ UNCHANGED <<store, cls, calls>>

TwinLoad ==
    /\ \A p \in Procs : run[p].pc = "load"
    /\ \E file \in ConfigFileStates :
          run' = [p \in Procs |-> StepLoad(run[p], file)]
    /\ UNCHANGED <<store, store2, runs, cls, calls>>

TwinFetch ==
    /\ \A p \in Procs : run[p].pc = "fetch"
    /\ \E res \in FetchResults :
          run' = [p \in Procs |-> StepFetch(run[p], res)]
    /\ UNCHANGED <<store, store2, runs, cls, calls>>

TwinCompare ==
    /\ \A p \in Procs : run[p].pc = "compare"
    /\ \E readable \in BOOLEAN :
          run' = [p \in Procs |->
                    StepCompare(run[p], IF p = 1 THEN store ELSE store2,
                                readable)]
    /\ UNCHANGED <<store, store2, runs, cls, calls>>

TwinUpdateRead ==
    /\ \A p \in Procs : run[p].pc = "update_read"
    /\ \E readable \in BOOLEAN :
          run' = [p \in Procs |->
                    StepUpdateRead(run[p], IF p = 1 THEN store ELSE store2,
                                   readable)]
    /\ UNCHANGED <<store, store2, runs, cls, calls>>

TwinUpdateWrite ==
    /\ \A p \in Procs : run[p].pc = "update_write"
    /\ \E outcome \in WriteOutcomes :
          /\ store' = FileAfterUpdate(run[1], store, outcome)
          /\ store2' = FileAfterUpdate(run[2], store2, outcome)
          /\ run' = [p \in Procs |-> StepUpdateWrite(run[p], outcome)]
    /\ UNCHANGED <<runs, cls, calls>>

TwinNext ==
    \/ TwinStart
    \/ TwinLoad
    \/ TwinFetch
    \/ TwinCompare
    \/ TwinUpdateRead
    \/ TwinUpdateWrite
    \/ \E p \in Procs : NotifyEmail(p) \/ NotifyWebhook(p)

SpecTwin == Init /\ [][TwinNext]_vars

\* ------------------------------------- update_metrics called in sequence

\* The sites a caller updates.
StoreSites == {"web", "feed"}

\* Contents seen by the caller: the digest of each with its length.
UpdateSamples ==
    { [checksum |-> 11, size |-> 2], [checksum |-> 12, size |-> 4],
      [checksum |-> 13, size |-> 4] }

\* checksum_window arguments: the type is int and nothing restricts it.
WindowSamples == {-1, 0, 1, 2}

\* The site whose calls are recorded in full.
WatchedSite == "web"

\* Before the first call: nothing fed to any site.
StoreInit ==
    /\ store = EmptyStore
    /\ store2 = EmptyStore
    /\ run = [p \in Procs |-> IdleRun]
    /\ runs = 0
    /\ cls = [phase |-> "off"]
    /\ calls = [n |-> 0, fed |-> <<>>, windows |-> {}, clean |-> TRUE,
                last |-> {}]

\* One call update_metrics(site_id, checksum, size, checksum_window=...), run
\* to completion before the next one starts. calls.fed is the sequence of
\* checksums given for WatchedSite, calls.windows the windows used for it,
\* calls.clean whether every read and write so far succeeded, calls.last
\* the arguments and the I/O results of the latest call.
UpdateMetrics ==
    /\ calls.n < MaxCalls
    /\ \E site_id \in StoreSites, sample \in UpdateSamples,
          checksum_window \in WindowSamples, readable \in BOOLEAN,
          outcome \in WriteOutcomes :
          LET res == update_metrics(store, site_id, sample.checksum,
                                    sample.size, {}, checksum_window,
                                    readable, outcome)
              watched == site_id = WatchedSite
          IN  /\ store' = res.file
              /\ calls' =
                   [n |-> calls.n + 1,
                    fed |-> IF watched THEN Append(calls.fed, sample.checksum)
                            ELSE calls.fed,
                    windows |-> IF watched
                                THEN calls.windows \cup {checksum_window}
                                ELSE calls.windows,
                    clean |-> calls.clean /\ readable /\ outcome = "ok",
                    last |-> {[site_id |-> site_id,
                               checksum |-> sample.checksum,
                               checksum_window |-> checksum_window,
                               readable |-> readable,
                               outcome |-> outcome]}]
    /\ UNCHANGED <<store2, run, runs, cls>>

StoreNext == UpdateMetrics

SpecStore == StoreInit /\ [][StoreNext]_vars

\* ------------------------------- update_metrics called by two processes

\* The record update_metrics leaves for content of that digest and size.
RecordOf(checksum, size) ==
    [checksum |-> checksum, last_size |-> size, last_rowcount |-> {},
     history_checksums |-> <<checksum>>]

\* metrics.json before the two calls.
ConcFiles == {EmptyStore}

\* What each of the two callers fetched, and the checksum_window arguments
\* they may pass.
ConcSamples == <<[checksum |-> 11, size |-> 2], [checksum |-> 12, size |-> 4]>>

ConcWindows == {1, 2}

\* A process that has not called update_metrics yet. `undisturbed` tells
\* whether no other process touched the file between this process's open
\* for writing and the end of its write.
NoUpdate ==
    [pc |-> "idle", site_id |-> "", checksum |-> 0, checksum_window |-> 0,
     readable |-> FALSE, loaded |-> << >>, written |-> << >>,
     order |-> << >>, outcome |-> "none", undisturbed |-> TRUE]

\* Number of characters of str(n) for n >= 0
RECURSIVE DecLen(_)
DecLen(n) == IF n < 10 THEN 1 ELSE 1 + DecLen(n \div 10)

\* Number of characters json.dump(..., indent=2) writes for a list of
\* checksums nested in a site record.
RECURSIVE ItemsLen(_)
ItemsLen(history) ==
    IF history = <<>> THEN 0
    ELSE 6 + 2 + DecLen(history[1]) + ItemsLen(Tail(history))

HistoryTextLen(history) ==
    IF history = <<>> THEN 2
    ELSE 2 + ItemsLen(history) + 2 * (Len(history) - 1) + 6

\* The members of a site record as json.dump writes them, in the order
\* update_metrics gives a record created by one call: "checksum",
\* "last_size", "last_rowcount" when present, "history_checksums".
MemberKeys(record) ==
    <<"checksum", "last_size">>
    \o [i \in 1..Cardinality(record.last_rowcount) |-> "last_rowcount"]
    \o <<"history_checksums">>

\* Number of characters of each member, on its line indented by 4.
MemberLens(record) ==
    <<4 + 12 + 2 + DecLen(record.checksum),
      4 + 13 + DecLen(record.last_size)>>
    \o [i \in 1..Cardinality(record.last_rowcount) |->
           4 + 17 + DecLen(CHOOSE n \in record.last_rowcount : TRUE)]
    \o <<4 + 21 + HistoryTextLen(record.history_checksums)>>

\* lens[k] + ... + lens[Len(lens)]
RECURSIVE SumFrom(_, _)
SumFrom(lens, k) ==
    IF k > Len(lens) THEN 0 ELSE lens[k] + SumFrom(lens, k + 1)

\* Number of characters json.dump(..., indent=2) writes for one site record.
RecordTextLen(record) ==
    LET members == MemberLens(record)
    IN  2 + SumFrom(members, 1) + 2 * (Len(members) - 1) + 4

\* The same for the entry of site s: its key on a line indented by 2, then
\* its record.
EntryLen(metrics, s) == 2 + Len(s) + 4 + RecordTextLen(metrics[s])

\* The same for the entries of the sites in `sites`, without the separators
\* between them.
RECURSIVE EntriesLen(_, _)
EntriesLen(metrics, sites) ==
    IF sites = {} THEN 0
    ELSE LET s == CHOOSE x \in sites : TRUE
         IN  EntryLen(metrics, s) + EntriesLen(metrics, sites \ {s})

\* Number of characters of the text save_metrics writes for a map.
TextLen(metrics) ==
    IF DOMAIN metrics = {} THEN 2
    ELSE 2 + EntriesLen(metrics, DOMAIN metrics)
         + 2 * (Cardinality(DOMAIN metrics) - 1) + 2

\* open(metrics_file, "w"): the file exists and is empty; an empty file does
\* not parse.
Truncated == [ok |-> FALSE, data |-> << >>]

\* The file as what the writes left in it. A layer is what one write left:
\* the first `written` characters of the
\* text of the non-empty map `metrics`, whose sites the text holds in the
\* order `order`. The file is a sequence of such layers, the latest write
\* first, each reaching further than the one above it: the file holds, from
\* the end of a layer on, the characters of the layer below it at the same
\* positions. Every open for writing empties the file, so with two processes
\* a write meets at most one earlier write and the file has at most two
\* layers.
\* These are the layers of a file that holds the whole text of `data`,
\* sites in the order `order`; none for the absent file.
WholeFileLayers(file, order) ==
    IF file.data = << >> THEN << >>
    ELSE <<[metrics |-> file.data, order |-> order,
            written |-> TextLen(file.data)]>>

\* The decimal digits of n >= 0, and the number a sequence of digits writes.
RECURSIVE Digits(_)
Digits(n) == IF n < 10 THEN <<n>> ELSE Append(Digits(n \div 10), n % 10)

RECURSIVE Number(_)
Number(digits) ==
    IF digits = << >> THEN 0
    ELSE 10 * Number(SubSeq(digits, 1, Len(digits) - 1)) + digits[Len(digits)]

\* What json.load cannot read.
Unparsable == [ok |-> FALSE, data |-> << >>, order |-> << >>]

\* A token of a text: its kind t, the position `at` of its first character
\* (from 0), its number of characters (quotes included) and its value v: the
\* characters between the quotes of a key, the digits of a digest ("str",
\* quoted) or of a number ("num"). The braces, brackets, colons and commas
\* are tokens of one character.
Token(t, at, len, v) == [t |-> t, at |-> at, len |-> len, v |-> v]

\* The tokens of the items of a history from the i-th on, whose line starts
\* at `at`: six blanks, the digest, and a comma unless it is the last.
RECURSIVE ItemTokens(_, _, _)
ItemTokens(history, i, at) ==
    IF i > Len(history) THEN << >>
    ELSE LET digits == Digits(history[i])
             end == at + 6 + Len(digits) + 2
         IN  <<Token("str", at + 6, Len(digits) + 2, digits)>>
             \o (IF i < Len(history)
                 THEN <<Token(",", end, 1, << >>)>>
                      \o ItemTokens(history, i + 1, end + 2)
                 ELSE << >>)

\* The tokens of the members of a record from the i-th on, whose line starts
\* at `at`: four blanks, the name, a colon, a blank, the value.
RECURSIVE MemberTokens(_, _, _)
MemberTokens(record, i, at) ==
    LET keys == MemberKeys(record)
        name == keys[i]
        value_at == at + Len(name) + 8
        number == IF name = "last_rowcount"
                  THEN CHOOSE n \in record.last_rowcount : TRUE
                  ELSE record[name]
        history == record.history_checksums
        value == IF name = "history_checksums"
                 THEN <<Token("[", value_at, 1, << >>)>>
                      \o ItemTokens(history, 1, value_at + 2)
                      \o <<Token("]", value_at + HistoryTextLen(history) - 1,
                                 1, << >>)>>
                 ELSE IF name = "checksum"
                 THEN <<Token("str", value_at, DecLen(record.checksum) + 2,
                              Digits(record.checksum))>>
                 ELSE <<Token("num", value_at, DecLen(number),
                              Digits(number))>>
        end == at + MemberLens(record)[i]
    IN  <<Token("key", at + 4, Len(name) + 2, name),
          Token(":", at + Len(name) + 6, 1, << >>)>>
        \o value
        \o (IF i < Len(keys)
            THEN <<Token(",", end, 1, << >>)>>
                 \o MemberTokens(record, i + 1, end + 2)
            ELSE << >>)

\* The tokens of the entries from the j-th on, whose line starts at `at`:
\* two blanks, the site, a colon, a blank, the record.
RECURSIVE EntryTokens(_, _, _, _)
EntryTokens(metrics, order, j, at) ==
    IF j > Len(order) THEN << >>
    ELSE LET s == order[j]
             end == at + EntryLen(metrics, s)
         IN  <<Token("key", at + 2, Len(s) + 2, s),
               Token(":", at + Len(s) + 4, 1, << >>)>>
             \o <<Token("{", at + Len(s) + 6, 1, << >>)>>
             \o MemberTokens(metrics[s], 1, at + Len(s) + 8)
             \o <<Token("}", end - 1, 1, << >>)>>
             \o (IF j < Len(order)
                 THEN <<Token(",", end, 1, << >>)>>
                      \o EntryTokens(metrics, order, j + 1, end + 2)
                 ELSE << >>)

\* The tokens of the text json.dump(metrics, f, indent=2) writes; all other
\* characters of the text are line ends and blanks.
TextTokens(metrics, order) ==
    IF order = << >> THEN <<Token("{", 0, 1, << >>), Token("}", 1, 1, << >>)>>
    ELSE <<Token("{", 0, 1, << >>)>> \o EntryTokens(metrics, order, 1, 2)
         \o <<Token("}", TextLen(metrics) - 1, 1, << >>)>>

\* The tokens json.load meets in a file whose first top.written characters
\* are those of the text of `top` and whose characters from there up to
\* under.written are those of the text of `under`. The tokens of `top` that
\* end before the seam and the tokens of `under` that start after it are
\* met as they are. At the seam,
\*   a key or digest of `top` that is cut goes on with the characters of
\*     `under` up to the next quote: these must be the end of a key or
\*     digest of `under`, since a string neither holds a line end nor ends
\*     before other characters than a colon, a comma or a bracket;
\*   a number of `top` that is cut, or ends at the seam, goes on with the
\*     digits `under` has there, and ends there when it has none;
\*   otherwise the digits left of a number of `under` that is cut are a
\*     number, and what is left of a cut key or digest cannot be read.
\* A token that the end of `under` cuts cannot be read.
Splice(top, under) ==
    LET k == top.written
        m == under.written
        Ends(token) == token.at + token.len
        Whole(token) == Ends(token) <= k
        Cut(token) == token.at < k /\ k < Ends(token)
        Later(token) == token.at >= k /\ Ends(token) <= m
        Torn(token) == token.at < m /\ m < Ends(token)
        \* left: the tokens before the seam; pa, pb: the token of `top` and
        \* the token of `under` that meet at the seam, if any; right: the
        \* tokens after the seam
        Meet(left, pa, pb, right) ==
            LET Joined(token) ==
                    [ok |-> TRUE, tokens |-> left \o <<token>> \o right]
            IN  IF pa # << >> /\ pa[1].t \in {"key", "str"}
                THEN IF pb = << >> THEN Unparsable
                     ELSE IF pb[1].t # pa[1].t THEN Unparsable
                     ELSE Joined(Token(pa[1].t, pa[1].at, 0,
                              SubSeq(pa[1].v, 1, k - pa[1].at - 1)
                              \o SubSeq(pb[1].v, k - pb[1].at, Len(pb[1].v))))
                ELSE IF pa # << >>
                THEN LET digits == SubSeq(pa[1].v, 1, k - pa[1].at)
                     IN  IF pb # << >>
                         THEN IF pb[1].t # "num" THEN Unparsable
                              ELSE Joined(Token("num", pa[1].at, 0,
                                       digits
                                       \o SubSeq(pb[1].v, k - pb[1].at + 1,
                                                 Len(pb[1].v))))
                         ELSE IF /\ right # << >>
                                 /\ right[1].t = "num"
                                 /\ right[1].at = k
                         THEN [ok |-> TRUE,
                               tokens |-> left
                                          \o <<Token("num", pa[1].at, 0,
                                                     digits \o right[1].v)>>
                                          \o Tail(right)]
                         ELSE Joined(Token("num", pa[1].at, 0, digits))
                ELSE IF pb # << >>
                THEN IF pb[1].t # "num" THEN Unparsable
                     ELSE Joined(Token("num", k, 0,
                              SubSeq(pb[1].v, k - pb[1].at + 1,
                                     Len(pb[1].v))))
                ELSE [ok |-> TRUE, tokens |-> left \o right]
        \* whole, cut: the tokens of `top` that end before the seam and the
        \* one it cuts; a number that ends at the seam can still grow
        Seam(whole, cut, pb, right) ==
            IF /\ cut = << >>
               /\ whole # << >>
               /\ whole[Len(whole)].t = "num"
               /\ Ends(whole[Len(whole)]) = k
            THEN Meet(SubSeq(whole, 1, Len(whole) - 1),
                      <<whole[Len(whole)]>>, pb, right)
            ELSE Meet(whole, cut, pb, right)
        Read(ta, tb) ==
            IF SelectSeq(tb, Torn) # << >> THEN Unparsable
            ELSE Seam(SelectSeq(ta, Whole), SelectSeq(ta, Cut),
                      SelectSeq(tb, Cut), SelectSeq(tb, Later))
    IN  Read(TextTokens(top.metrics, top.order),
             TextTokens(under.metrics, under.order))

\* dict semantics of json.load for a further key: a key met again keeps its
\* place and takes the later value.
WithKey(read, key, value) ==
    [data |-> [s \in DOMAIN read.data \cup {key} |->
                  IF s = key THEN value ELSE read.data[s]],
     order |-> IF key \in DOMAIN read.data THEN read.order
               ELSE Append(read.order, key)]

\* json.load on tokens, from the i-th on: a value, the members of an object
\* after its brace or a comma, the items of a list after its bracket or a
\* comma. `next` is the place after what was read. A number of several
\* digits does not start with 0. A quoted token made of digits is a digest,
\* the number its digits write, unless they are not the decimal form of a
\* number: it is then kept as its digits. A key is followed by a colon and
\* a digest is not, so a digest in the place of a key and a key in the place of a
\* value cannot be read.
RECURSIVE ParseValue(_, _)
RECURSIVE ParseMembers(_, _, _)
RECURSIVE ParseItems(_, _, _)
ParseValue(ts, i) ==
    IF i > Len(ts) THEN Unparsable
    ELSE IF ts[i].t = "str"
    THEN [ok |-> TRUE, next |-> i + 1,
          v |-> IF ts[i].v # << >> /\ (Len(ts[i].v) = 1 \/ ts[i].v[1] # 0)
                THEN JStr(Number(ts[i].v))
                ELSE [text |-> ts[i].v]]
    ELSE IF ts[i].t = "num"
    THEN IF Len(ts[i].v) > 1 /\ ts[i].v[1] = 0 THEN Unparsable
         ELSE [ok |-> TRUE, v |-> JInt(Number(ts[i].v)), next |-> i + 1]
    ELSE IF ts[i].t = "["
    THEN IF i < Len(ts) /\ ts[i + 1].t = "]"
         THEN [ok |-> TRUE, v |-> JList(<< >>), next |-> i + 2]
         ELSE ParseItems(ts, i + 1, << >>)
    ELSE IF ts[i].t = "{"
    THEN IF i < Len(ts) /\ ts[i + 1].t = "}"
         THEN [ok |-> TRUE, v |-> JDict(<< >>), next |-> i + 2]
         ELSE LET Object(members) ==
                      IF members.ok
                      THEN [ok |-> TRUE, v |-> JDict(members.data),
                            next |-> members.next]
                      ELSE Unparsable
              IN  Object(ParseMembers(ts, i + 1,
                                      [data |-> << >>, order |-> << >>]))
    ELSE Unparsable

ParseMembers(ts, i, read) ==
    IF \/ i + 1 > Len(ts)
       \/ ts[i].t # "key"
       \/ ts[i + 1].t # ":"
    THEN Unparsable
    ELSE LET Rest(now, j) ==
                 IF j > Len(ts) THEN Unparsable
                 ELSE IF ts[j].t = "}"
                 THEN [ok |-> TRUE, data |-> now.data, order |-> now.order,
                       next |-> j + 1]
                 ELSE IF ts[j].t = ","
                 THEN ParseMembers(ts, j + 1, now)
                 ELSE Unparsable
             Member(value) ==
                 IF ~value.ok THEN Unparsable
                 ELSE Rest(WithKey(read, ts[i].v, value.v), value.next)
         IN  Member(ParseValue(ts, i + 2))

ParseItems(ts, i, items) ==
    LET Rest(now, j) ==
            IF j > Len(ts) THEN Unparsable
            ELSE IF ts[j].t = "]"
            THEN [ok |-> TRUE, v |-> JList(now), next |-> j + 1]
            ELSE IF ts[j].t = ","
            THEN ParseItems(ts, j + 1, now)
            ELSE Unparsable
        Item(value) ==
            IF ~value.ok THEN Unparsable
            ELSE Rest(Append(items, value.v), value.next)
    IN  Item(ParseValue(ts, i))

\* json.load on the tokens of a file: one object and nothing after it. What
\* it holds for a key is a site record, or any other value, which is kept as
\* the JSON value it is.
ReadTokens(ts) ==
    IF Len(ts) < 2 THEN Unparsable
    ELSE IF ts[1].t # "{" THEN Unparsable
    ELSE LET \* an object with the members of a site record, each of its
             \* kind, and the site record it is
             IsRecord(value) ==
                 /\ Kind(value) = "dict"
                 /\ {"checksum", "last_size", "history_checksums"}
                       \subseteq DOMAIN Val(value)
                 /\ DOMAIN Val(value)
                       \subseteq {"checksum", "last_size", "last_rowcount",
                                  "history_checksums"}
                 /\ Kind(Val(value)["checksum"]) = "str"
                 /\ Kind(Val(value)["last_size"]) = "int"
                 /\ "last_rowcount" \in DOMAIN Val(value)
                       => Kind(Val(value)["last_rowcount"]) = "int"
                 /\ Kind(Val(value)["history_checksums"]) = "list"
                 /\ \A i \in 1..Len(Val(Val(value)["history_checksums"])) :
                       Kind(Val(Val(value)["history_checksums"])[i]) = "str"
             AsRecord(value) ==
                 LET object == Val(value)
                     history == Val(object["history_checksums"])
                 IN  [checksum |-> Val(object["checksum"]),
                      last_size |-> Val(object["last_size"]),
                      last_rowcount |->
                          IF "last_rowcount" \in DOMAIN object
                          THEN {Val(object["last_rowcount"])} ELSE {},
                      history_checksums |->
                          [i \in 1..Len(history) |-> Val(history[i])]]
             Document(doc) ==
                 IF ~doc.ok THEN Unparsable
                 ELSE IF doc.next # Len(ts) + 1 THEN Unparsable
                 ELSE [ok |-> TRUE,
                       data |-> [s \in DOMAIN doc.data |->
                                    IF IsRecord(doc.data[s])
                                    THEN AsRecord(doc.data[s])
                                    ELSE doc.data[s]],
                       order |-> doc.order]
         IN  Document(IF ts[2].t = "}"
                      THEN [ok |-> TRUE, data |-> << >>, order |-> << >>,
                            next |-> 3]
                      ELSE ParseMembers(ts, 2,
                                        [data |-> << >>, order |-> << >>]))

\* json.load on the file. An empty file does not parse; one layer parses
\* when it is a whole text; a text that misses characters needs the layer
\* below to end with a closing brace.
ReadFile(layers) ==
    IF layers = << >> THEN Unparsable
    ELSE LET top == layers[1]
             len == TextLen(top.metrics)
             CommaIndex(layer, j) ==
                 2 + EntriesLen(layer.metrics, {layer.order[i] : i \in 1..j})
                   + 2 * (j - 1)
             EndsClosed(layer) ==
                 \/ layer.written + 2 >= TextLen(layer.metrics)
                 \/ \E j \in 1..(Len(layer.order) - 1) :
                       CommaIndex(layer, j) = layer.written
         IN  IF Len(layers) = 1
             THEN IF top.written = len
                  THEN [ok |-> TRUE, data |-> top.metrics, order |-> top.order]
                  ELSE Unparsable
             ELSE IF top.written < len /\ ~EndsClosed(layers[2])
             THEN Unparsable
             ELSE LET Read(seam) ==
                          IF seam.ok THEN ReadTokens(seam.tokens)
                          ELSE Unparsable
                  IN  Read(Splice(top, layers[2]))

\* What one process's write leaves: its file position is 0, so `written`
\* characters of its text replace the first characters of the file and what
\* the file holds beyond them stays.
WriteFromStart(file, layers, metrics, order, written) ==
    IF written = 0 THEN [file |-> file, layers |-> layers]
    ELSE LET Beyond(layer) == layer.written > written
             now == <<[metrics |-> metrics, order |-> order,
                       written |-> written]>>
                    \o SelectSeq(layers, Beyond)
             File(read) == [ok |-> read.ok, data |-> read.data]
         IN  [file |-> File(ReadFile(now)), layers |-> now]

\* The records of the processes after process p made a step on the file:
\* p's record becomes `mine`, and every other process that has the file open
\* for writing has been disturbed.
AfterFileStep(p, mine) ==
    [q \in Procs |->
        IF q = p THEN mine
        ELSE IF calls.upd[q].pc = "opened"
        THEN [calls.upd[q] EXCEPT !.undisturbed = FALSE]
        ELSE calls.upd[q]]

ConcInit ==
    /\ store \in ConcFiles
    /\ store2 = EmptyStore
    /\ run = [p \in Procs |-> IdleRun]
    /\ runs = 0
    /\ cls = [phase |-> "off"]
    /\ calls = [n |-> 0, upd |-> [p \in Procs |-> NoUpdate],
                layers |-> WholeFileLayers(store, <<WatchedSite>>)]

\* store.py 111-137 in process p: load_metrics reads the whole file in one
\* step, then the new map is built in memory.
UpdateLoad(p) ==
    /\ calls.upd[p].pc = "idle"
    /\ \E site_id \in StoreSites, checksum_window \in ConcWindows,
          readable \in (IF load_metrics(store, TRUE) = << >>
                        THEN {TRUE} ELSE BOOLEAN) :
          LET sample == ConcSamples[p]
              all_metrics == load_metrics(store, readable)
              Order(file_order) ==
                  IF site_id \in DOMAIN all_metrics THEN file_order
                  ELSE Append(file_order, site_id)
              site_metrics == UpdatedSiteMetrics(all_metrics, site_id,
                                  sample.checksum, sample.size, {},
                                  checksum_window)
          IN  calls' = [calls EXCEPT !.upd = AfterFileStep(p,
                          [pc |-> "loaded", site_id |-> site_id,
                           checksum |-> sample.checksum,
                           checksum_window |-> checksum_window,
                           readable |-> readable,
                           loaded |-> all_metrics,
                           written |-> PutSite(all_metrics, site_id,
                                               site_metrics),
                           order |-> Order(IF all_metrics = << >> THEN << >>
                                           ELSE ReadFile(calls.layers).order),
                           outcome |-> "none", undisturbed |-> TRUE])]
    /\ UNCHANGED <<store, store2, run, runs, cls>>

\* store.py 76-81 in process p: save_metrics makes the directory (a failure
\* leaves update_metrics as an exception) and opens the file for writing,
\* which empties it (a failure is caught and update_metrics returns).
SaveOpen(p) ==
    /\ calls.upd[p].pc = "loaded"
    /\ \E outcome \in {"ok", "open_error", "mkdir_error"} :
          IF outcome = "ok"
          THEN /\ store' = Truncated
               /\ calls' = [calls EXCEPT
                               !.upd = AfterFileStep(p,
                                   [calls.upd[p] EXCEPT !.pc = "opened"]),
                               !.layers = << >>]
          ELSE /\ store' = store
               /\ calls' = [calls EXCEPT
                               !.upd[p].pc = IF outcome = "mkdir_error"
                                             THEN "raised" ELSE "returned",
                               !.upd[p].outcome = outcome]
    /\ UNCHANGED <<store2, run, runs, cls>>

\* store.py 82 in process p: json.dump and the close write the text from the
\* start of the file: the whole text, or, when the write fails (the
\* exception is caught), any number of its first characters short of that;
\* then update_metrics returns.
SaveDump(p) ==
    /\ calls.upd[p].pc = "opened"
    /\ \E written \in 0..TextLen(calls.upd[p].written) :
          LET outcome == IF written = TextLen(calls.upd[p].written)
                         THEN "ok" ELSE "dump_error"
              Left(res) ==
                  /\ store' = res.file
                  /\ calls' = [calls EXCEPT
                                  !.upd = AfterFileStep(p,
                                      [calls.upd[p] EXCEPT
                                          !.pc = "returned",
                                          !.outcome = outcome]),
                                  !.layers = res.layers]
          IN  Left(WriteFromStart(store, calls.layers,
                                  calls.upd[p].written,
                                  calls.upd[p].order, written))
    /\ UNCHANGED <<store2, run, runs, cls>>

ConcNext == \E p \in Procs : UpdateLoad(p) \/ SaveOpen(p) \/ SaveDump(p)

SpecConc == ConcInit /\ [][ConcNext]_vars

\* ------------------------------------------ compare_with_history alone

\* metrics.json before the call: no record for the site, or one.
CompareFiles ==
    {EmptyStore} \cup
    { [ok |-> TRUE, data |-> [s \in {WatchedSite} |-> RecordOf(c, z)]] :
         c \in {11, 12}, z \in 0..MaxSize }

CompareInit ==
    /\ store \in CompareFiles
    /\ store2 = EmptyStore
    /\ run = [p \in Procs |-> IdleRun]
    /\ runs = 0
    /\ cls = [phase |-> "off"]
    /\ calls = [n |-> 0, compared |-> {}]

\* compare_with_history(current_size, current_checksum, site_id); readable
\* is whether its load_metrics can read the file.
CompareWithHistory ==
    /\ \E current_size \in 0..MaxSize, current_checksum \in {11, 12},
          readable \in BOOLEAN :
          calls' = [calls EXCEPT !.compared =
                      {[current_size |-> current_size,
                        current_checksum |-> current_checksum,
                        readable |-> readable,
                        result |-> compare_with_history(
                                      current_size, current_checksum,
                                      get_site_metrics(
                                          load_metrics(store, readable),
                                          WatchedSite))]}]
    /\ UNCHANGED <<store, store2, run, runs, cls>>

CompareNext == CompareWithHistory

SpecCompare == CompareInit /\ [][CompareNext]_vars

\* ---------------------------------------------------------------------
\* load_config called on a file system
\* ---------------------------------------------------------------------

\* The four paths load_config tries when it is given none, in its order.
yaml_path == "configs/watch.yaml"
json_path == "configs/watch.json"
example_yaml == "configs/watch.example.yaml"
example_json == "configs/watch.example.json"

\* Paths a caller passes explicitly.
ExplicitPaths == {"custom.json", "custom.yaml"}

\* config_file.suffix in (".yaml", ".yml")
IsYaml(path) == path \in {yaml_path, example_yaml, "custom.yaml"}

\* The path load_config settles on; {} when it raises FileNotFoundError
\* because none of the four exists.
ResolveConfigPath(config_path, exists) ==
    IF config_path # {} THEN config_path
    ELSE IF yaml_path \in exists THEN {yaml_path}
    ELSE IF json_path \in exists THEN {json_path}
    ELSE IF example_yaml \in exists THEN {example_yaml}
    ELSE IF example_json \in exists THEN {example_json}
    ELSE {}

\* What a call of load_config gives.
ConfigRaised(error, path) == [raised |-> {error}, path |-> path, returned |-> {}]

\* Variant: the first malformed entry aborts the load.
load_config_at_aborts_on_invalid(config_path, exists, content) ==
    LET path == ResolveConfigPath(config_path, exists) IN
    IF path = {} THEN ConfigRaised("FileNotFoundError", path)
    ELSE LET config_file == CHOOSE p \in path : TRUE IN
         IF config_file \notin exists
         THEN ConfigRaised("FileNotFoundError", path)
         ELSE IF IsYaml(config_file) THEN ConfigRaised("ValueError", path)
         ELSE IF ~content[config_file].ok THEN ConfigRaised("ValueError", path)
         ELSE IF \E s \in DOMAIN content[config_file].data :
                    SiteConfigInvalid(content[config_file].data[s])
         THEN ConfigRaised("ValueError", path)
         ELSE [raised |-> {}, path |-> path,
               returned |-> {load_config(content[config_file].data)}]

\* load_config(config_path): exists is the set of paths that exist, content
\* gives for a path whether the file parses as JSON and the parsed mapping.
load_config_at(config_path, exists, content) ==
    LET path == ResolveConfigPath(config_path, exists) IN
    IF path = {} THEN ConfigRaised("FileNotFoundError", path)
    ELSE LET config_file == CHOOSE p \in path : TRUE IN
         IF config_file \notin exists
         THEN ConfigRaised("FileNotFoundError", path)
         ELSE IF IsYaml(config_file) THEN ConfigRaised("ValueError", path)
         ELSE IF ~content[config_file].ok THEN ConfigRaised("ValueError", path)
         ELSE [raised |-> {}, path |-> path,
               returned |-> {load_config(content[config_file].data)}]

\* A well-formed entry with only the two required keys.
MinimalEntry == [NoKeys EXCEPT !.url = {JStr("u1")}, !.type = {JStr("html")}]

\* Entries a config file can hold: well-formed ones, ones that break one
\* rule of the validator each, and ones whose numbers are out of range.
EntrySamples ==
    { JDict(MinimalEntry),
      JDict([MinimalEntry EXCEPT
                !.type = {JStr("csv")}, !.selectors = {JList(<<"h1">>)},
                !.min_bytes = {JInt(1)},
                !.expected_columns = {JList(<<"a">>)},
                !.min_rows = {JInt(1)}, !.content_type = {JStr(<<1>>)},
                !.verify_ssl = {JBool(FALSE)}, !.checksum_window = {JInt(2)},
                !.notify = {NotifyDict({"MAIL"}, {})}]),
      JStr("u1"),
      JList(<<>>),
      JDict([MinimalEntry EXCEPT !.url = {}]),
      JDict([MinimalEntry EXCEPT !.url = {JInt(5)}]),
      JDict([MinimalEntry EXCEPT !.type = {}]),
      JDict([MinimalEntry EXCEPT !.type = {JStr("json")}]),
      JDict([MinimalEntry EXCEPT !.type = {JList(<<"html">>)}]),
      JDict([MinimalEntry EXCEPT !.selectors = {JStr("h1")}]),
      JDict([MinimalEntry EXCEPT !.selectors = {JNull}]),
      JDict([MinimalEntry EXCEPT !.min_bytes = {JStr("1")}]),
      JDict([MinimalEntry EXCEPT !.expected_columns = {JStr("a")}]),
      JDict([MinimalEntry EXCEPT !.min_rows = {JStr("1")}]),
      JDict([MinimalEntry EXCEPT !.content_type = {JInt(1)}]),
      JDict([MinimalEntry EXCEPT !.content_type = {JInt(0)}]),
      JDict([MinimalEntry EXCEPT !.content_type = {JNull}]),
      JDict([MinimalEntry EXCEPT !.verify_ssl = {JInt(1)}]),
      JDict([MinimalEntry EXCEPT !.checksum_window = {JStr("10")}]),
      JDict([MinimalEntry EXCEPT !.checksum_window = {JNull}]),
      JDict([MinimalEntry EXCEPT !.notify = {JList(<<>>)}]),
      JDict([MinimalEntry EXCEPT !.checksum_window = {JInt(0)}]),
      JDict([MinimalEntry EXCEPT !.checksum_window = {JInt(-1)}]),
      JDict([MinimalEntry EXCEPT !.checksum_window = {JBool(TRUE)}]),
      JDict([MinimalEntry EXCEPT !.min_bytes = {JInt(-1)}]) }

\* The site ids of the file passed explicitly.
SampleSiteIds == {"s1", "s2"}

\* What the two JSON files of the default locations hold.
DefaultContent(parsable) ==
    [p \in {json_path, example_json} |->
        [ok |-> parsable,
         data |-> IF p = json_path THEN RawConfig
                  ELSE [s \in {"web"} |-> RawConfig[s]]]]

ConfigInit ==
    /\ store = EmptyStore
    /\ store2 = EmptyStore
    /\ run = [p \in Procs |-> IdleRun]
    /\ runs = 0
    /\ cls = [phase |-> "off"]
    /\ calls = [n |-> 0, request |-> {}, result |-> {}]

\* load_config() with no path, on a configs directory holding any of the
\* four files.
LoadDefault ==
    /\ calls.n = 0
    /\ \E exists \in SUBSET {yaml_path, json_path, example_yaml, example_json},
          parsable \in BOOLEAN :
          calls' = [n |-> 1,
                    request |-> {[config_path |-> {}, exists |-> exists,
                                  parsable |-> parsable, data |-> {}]},
                    result |-> {load_config_at({}, exists,
                                               DefaultContent(parsable))}]
    /\ UNCHANGED <<store, store2, run, runs, cls>>

\* load_config(path) on a file that may not exist, may not parse, and
\* otherwise holds two entries.
LoadExplicit ==
    /\ calls.n = 0
    /\ \E config_path \in ExplicitPaths, present \in BOOLEAN,
          parsable \in BOOLEAN, data \in [SampleSiteIds -> EntrySamples] :
          calls' = [n |-> 1,
                    request |-> {[config_path |-> {config_path},
                                  exists |-> IF present THEN {config_path}
                                             ELSE {},
                                  parsable |-> parsable, data |-> {data}]},
                    result |-> {load_config_at(
                                   {config_path},
                                   IF present THEN {config_path} ELSE {},
                                   [p \in ExplicitPaths |->
                                       [ok |-> parsable, data |-> data]])}]
    /\ UNCHANGED <<store, store2, run, runs, cls>>

ConfigNext == LoadDefault \/ LoadExplicit

SpecConfig == ConfigInit /\ [][ConfigNext]_vars

\* ---------------------------------------------------------------------
\* _run_checks_for_type called on a loaded site record
\* ---------------------------------------------------------------------

\* Loaded site records: those of RawConfig, csv sites with only columns, only
\* a row minimum, or neither, and an html site whose selector is not valid
\* CSS.
CheckConfigs ==
    {load_config(RawConfig)[s] : s \in DOMAIN load_config(RawConfig)} \cup
    {_validate_site_config(JDict(e)) : e \in
        { [MinimalEntry EXCEPT !.type = {JStr("csv")},
                               !.expected_columns = {JList(<<"a", "b">>)}],
          [MinimalEntry EXCEPT !.type = {JStr("csv")},
                               !.min_rows = {JInt(2)}],
          [MinimalEntry EXCEPT !.type = {JStr("csv")}],
          [MinimalEntry EXCEPT !.selectors = {JList(<<"a[">>)}] }}

ChecksInit ==
    /\ store = EmptyStore
    /\ store2 = EmptyStore
    /\ run = [p \in Procs |-> IdleRun]
    /\ runs = 0
    /\ cls = [phase |-> "off"]
    /\ calls = [n |-> 0, checked |-> {}]

\* _run_checks_for_type(site_config, content_bytes, headers, status_code,
\* final_url), with or without openpyxl installed.
RunChecks ==
    /\ calls.n = 0
    /\ \E site_config \in CheckConfigs, has_openpyxl \in BOOLEAN,
          content \in ContentSamples \cup {UnparsableBody},
          headers \in HeaderSamples, status_code \in StatusSamples :
          calls' = [n |-> 1,
                    checked |-> {[site_config |-> site_config,
                                  has_openpyxl |-> has_openpyxl,
                                  content |-> content,
                                  headers |-> headers,
                                  status_code |-> status_code,
                                  summary |-> _run_checks_for_type(
                                      site_config, has_openpyxl, content,
                                      headers, status_code)]}]
    /\ UNCHANGED <<store, store2, run, runs, cls>>

ChecksNext == RunChecks

SpecChecks == ChecksInit /\ [][ChecksNext]_vars

\* ---------------------------------------------------------------------
\* checks.fetch: the retry loop
\* ---------------------------------------------------------------------

\* Largest max_retries a call is made with (the default is 2).
MaxRetries == 3

\* What one requests.get can do: give a response, raise a
\* requests.exceptions.RequestException, or raise something else.
AttemptOutcomes ==
    [raises : {{}}, response : {{[content |-> c, status_code |-> sc]} :
                                   c \in ContentSamples, sc \in StatusSamples}]
    \cup { [raises |-> {"RequestException"}, response |-> {}],
           [raises |-> {"Exception"}, response |-> {}] }

\* A call of fetch before its first statement.
NewFetch(max_retries, verify_ssl) ==
    [pc |-> "import", max_retries |-> max_retries, verify_ssl |-> verify_ssl,
     attempt |-> 0, log |-> <<>>, returned |-> {}, raised |-> {}]

IdleFetch == [NewFetch(0, TRUE) EXCEPT !.pc = "idle"]

\* `import requests`
fetch_import(f, has_requests) ==
    IF has_requests THEN [f EXCEPT !.pc = "loop"]
    ELSE [f EXCEPT !.pc = "done", !.raised = {"ImportError"}]

\* Variant: any exception of an attempt is retried.
fetch_attempt_retries_any_error(f, outcome) ==
    IF f.attempt > f.max_retries
    THEN [f EXCEPT !.pc = "done", !.raised = {"RuntimeError"}]
    ELSE IF outcome.response # {}
    THEN [f EXCEPT !.pc = "done", !.returned = outcome.response,
                   !.log = Append(@, "response")]
    ELSE IF f.attempt < f.max_retries
    THEN [f EXCEPT !.attempt = @ + 1,
                   !.log = Append(@, IF outcome.raises = {"RequestException"}
                                     THEN "transport_error"
                                     ELSE "other_error")]
    ELSE [f EXCEPT !.pc = "done", !.raised = outcome.raises,
                   !.log = Append(@, IF outcome.raises = {"RequestException"}
                                     THEN "transport_error"
                                     ELSE "other_error")]

\* One turn of `for attempt in range(max_retries + 1)`: the request and what
\* follows it; when the range is exhausted, the statements after the loop.
fetch_attempt(f, outcome) ==
    IF f.attempt > f.max_retries
    THEN [f EXCEPT !.pc = "done", !.raised = {"RuntimeError"}]
    ELSE IF outcome.response # {}
    THEN [f EXCEPT !.pc = "done", !.returned = outcome.response,
                   !.log = Append(@, "response")]
    ELSE IF outcome.raises = {"RequestException"}
    THEN IF f.attempt < f.max_retries
         THEN [f EXCEPT !.attempt = @ + 1,
                        !.log = Append(@, "transport_error")]
         ELSE [f EXCEPT !.pc = "done", !.raised = outcome.raises,
                        !.log = Append(@, "transport_error")]
    ELSE [f EXCEPT !.pc = "done", !.raised = outcome.raises,
                   !.log = Append(@, "other_error")]

FetchInit ==
    /\ store = EmptyStore
    /\ store2 = EmptyStore
    /\ run = [p \in Procs |-> IdleRun]
    /\ runs = 0
    /\ cls = [phase |-> "off"]
    /\ calls = [n |-> 0, fetch |-> IdleFetch]

\* fetch(url, max_retries=..., verify_ssl=...) is called.
FetchCall ==
    /\ calls.fetch.pc = "idle"
    /\ \E max_retries \in -1..MaxRetries, verify_ssl \in BOOLEAN :
          calls' = [n |-> 1, fetch |-> NewFetch(max_retries, verify_ssl)]
    /\ UNCHANGED <<store, store2, run, runs, cls>>

FetchImport ==
    /\ calls.fetch.pc = "import"
    /\ \E has_requests \in BOOLEAN :
          calls' = [calls EXCEPT !.fetch = fetch_import(@, has_requests)]
    /\ UNCHANGED <<store, store2, run, runs, cls>>

FetchAttempt ==
    /\ calls.fetch.pc = "loop"
    /\ \E outcome \in AttemptOutcomes :
          calls' = [calls EXCEPT !.fetch = fetch_attempt(@, outcome)]
    /\ UNCHANGED <<store, store2, run, runs, cls>>

FetchNext == FetchCall \/ FetchImport \/ FetchAttempt

SpecFetch == FetchInit /\ [][FetchNext]_vars

\* ------------------------------------------------------------- properties

\* The run of the sequential process.
R == run[1]

\* Severity -> status code as the specification states it (0, 2, 3).
SeverityCode(level) ==
    CASE level = "INFO" -> 0 [] level = "WARN" -> 2 [] level = "FAIL" -> 3

\* A hard check failure of a report: rules 1-4 of the classifier.
HardFailure(c) ==
    \/ ~c.status
    \/ ~c.min_bytes
    \/ \E s \in c.schema : ~s.valid /\ ~s.skipped
    \/ \E h \in c.html_selectors : ~h.valid

\* The entries of the config file that pass validation.
ValidSiteIds == {s \in DOMAIN RawConfig : ~SiteConfigInvalid(RawConfig[s])}

\* The run got a response and its report and comparison are computed.
Classified(r) == r.fetch_ok /\ r.historical # {}

ReportOf(r) == (CHOOSE s \in r.summary : TRUE).checks

ComparisonOf(r) == CHOOSE h \in r.historical : TRUE

\* C1: for every report and comparison the classifier returns FAIL iff there
\* is a hard check failure (status, min_bytes, a schema result that is invalid
\* and not skipped, an invalid selector result), otherwise WARN iff anomaly or
\* size_dropped_50pct, otherwise INFO.
C1_ClassifierPrecedence ==
    cls.phase = "out" =>
        LET hard == HardFailure(cls.checks)
            soft == cls.historical.anomaly \/ cls.historical.size_dropped_50pct
        IN  /\ cls.level = "FAIL" <=> hard
            /\ cls.level = "WARN" <=> ~hard /\ soft
            /\ cls.level = "INFO" <=> ~hard /\ ~soft

\* A hard failure together with an anomaly was classified FAIL.
C1_Witness ==
    /\ cls.phase = "out"
    /\ ~cls.checks.status
    /\ cls.historical.anomaly
    /\ cls.level = "FAIL"

\* C2 as stated: a run returns 0 only when every check recorded in the report
\* is true/valid (status, min_bytes, content_type when configured, any schema
\* or selector sub-result) and the comparison shows no anomaly and no >50%
\* size drop.
C2_ZeroOnlyIfAllChecksPass ==
    R.pc = "done" /\ R.exit_code = {0} =>
        /\ Classified(R)
        /\ ReportOf(R).status
        /\ ReportOf(R).min_bytes
        /\ \A t \in ReportOf(R).content_type : t
        /\ \A s \in ReportOf(R).schema : s.valid
        /\ \A h \in ReportOf(R).html_selectors : h.valid
        /\ ~ComparisonOf(R).anomaly
        /\ ~ComparisonOf(R).size_dropped_50pct

\* C2 amended: a run returns 0 only when status and min_bytes pass, every
\* schema sub-result is valid or skipped, every selector sub-result is valid
\* and the comparison shows no anomaly and no >50% size drop (content_type_ok
\* is reported but does not take part).
C2_ZeroOnlyIfNoHardFailure ==
    R.pc = "done" /\ R.exit_code = {0} =>
        /\ Classified(R)
        /\ ReportOf(R).status
        /\ ReportOf(R).min_bytes
        /\ \A s \in ReportOf(R).schema : s.valid \/ s.skipped
        /\ \A h \in ReportOf(R).html_selectors : h.valid
        /\ ~ComparisonOf(R).anomaly
        /\ ~ComparisonOf(R).size_dropped_50pct

\* A run returned 0 although its content-type check failed.
C2_Witness ==
    /\ R.pc = "done"
    /\ R.exit_code = {0}
    /\ Classified(R)
    /\ ReportOf(R).content_type = {FALSE}

\* C3: a skipped schema result reports valid = false with an error, and a run
\* whose only non-passing sub-result is a skipped schema result, with no
\* anomaly and no size drop, is classified INFO.
C3_SkippedSchemaIsInfo ==
    Classified(R) =>
        /\ \A s \in ReportOf(R).schema : s.skipped => ~s.valid /\ s.error
        /\ (/\ \E s \in ReportOf(R).schema : s.skipped
            /\ ReportOf(R).status
            /\ ReportOf(R).min_bytes
            /\ \A t \in ReportOf(R).content_type : t
            /\ \A h \in ReportOf(R).html_selectors : h.valid
            /\ ~ComparisonOf(R).anomaly
            /\ ~ComparisonOf(R).size_dropped_50pct)
           => R.level = "INFO"

\* An excel run without openpyxl went through the classifier and returned 0.
C3_Witness ==
    /\ R.pc = "done"
    /\ Classified(R)
    /\ \E s \in ReportOf(R).schema : s.skipped /\ ~s.valid
    /\ R.level = "INFO"
    /\ R.exit_code = {0}

\* C4: a finished run has returned 0, 2 or 3, and a run in which an exception
\* reached the top level has returned 3.
C4_AlwaysReturnsACode ==
    \A p \in Procs :
        /\ run[p].pc = "done" => run[p].exit_code \in {{0}, {2}, {3}}
        /\ run[p].raised => run[p].pc = "done" /\ run[p].exit_code = {3}

\* The history update raised (the directory could not be made) and the run
\* returned 3.
C4_Witness ==
    /\ R.pc = "done"
    /\ R.raised
    /\ R.log.updates = 1
    /\ R.exit_code = {3}

\* C5: a run whose site is not in the loaded config never gets past the
\* config step, and a run that ended at the config step (load failed or site
\* absent) returned 3 with no fetch, no notification, no console report and
\* no history update.
C5_NoConfigNoEffects ==
    /\ R.pc # "idle" /\ R.site_id \notin ValidSiteIds
            => R.pc \in {"load", "done"} /\ R.site_config = {}
    /\ R.pc = "done" /\ R.site_config = {}
            => /\ R.exit_code = {3}
               /\ R.log = NoLog
               /\ store = R.store0

\* A real (non-dry) run for a site the config lacks ended with 3, after an
\* earlier run had written history.
C5_Witness ==
    /\ R.pc = "done"
    /\ R.site_id = "ghost"
    /\ ~R.dry_run
    /\ ~R.raised
    /\ R.exit_code = {3}
    /\ DOMAIN store.data # {}

\* The fetch of the run was attempted and raised.
FetchFailedIn(r) == r.log.fetches = 1 /\ ~r.fetch_ok

\* C6: after a failed fetch the run returns 3; a dry run notifies nobody and
\* prints nothing, a real run calls notify exactly once, with FAIL; the
\* channels' outcomes do not change the code.
C6_FetchFailure ==
    FetchFailedIn(R) =>
        /\ R.pc = "done" => R.exit_code = {3}
        /\ R.dry_run => /\ R.pc = "done"
                        /\ R.log.notify_calls = <<>>
                        /\ R.log.attempts = <<>>
                        /\ R.log.prints = 0
        /\ ~R.dry_run => R.log.notify_calls = <<"FAIL">>
        /\ R.log.updates = 0

\* A real run whose fetch failed delivered the failure by webhook after the
\* email channel failed.
C6_Witness ==
    /\ R.pc = "done"
    /\ FetchFailedIn(R)
    /\ ~R.dry_run
    /\ Len(R.log.attempts) = 2
    /\ R.log.attempts[1].channel = "email" /\ ~R.log.attempts[1].sent
    /\ R.log.attempts[2].channel = "webhook" /\ R.log.attempts[2].sent
    /\ R.exit_code = {3}

\* C7 as stated: in a run whose fetch succeeded update_metrics is performed
\* exactly once, and once it has returned the persisted record of the site
\* holds the checksum and the size of the fetched content.
C7_UpdateOnceAndPersisted ==
    R.pc = "done" /\ R.fetch_ok =>
        /\ R.log.updates = 1
        /\ R.log.update_returned =>
              /\ store.ok
              /\ R.site_id \in DOMAIN store.data
              /\ store.data[R.site_id].checksum = R.checksum
              /\ store.data[R.site_id].last_size = R.size

\* C8 as stated: a finished dry run has called no notification channel, has
\* printed the report exactly once and has returned the code of its
\* severity (3 when it ended before being classified).
C8_DryRunPrintsOnce ==
    R.pc = "done" /\ R.dry_run =>
        /\ R.log.notify_calls = <<>>
        /\ R.log.attempts = <<>>
        /\ R.log.prints = 1
        /\ R.exit_code = {IF R.level = "none" THEN 3
                          ELSE SeverityCode(R.level)}

\* C8, amended: a dry run never calls notify and never attempts a channel;
\* once its checks and its history update have completed it has printed the
\* report exactly once and returned the code of its severity; a dry run that
\* ends before that (no configuration for the site, fetch failure, an
\* exception such as a history directory that cannot be created) has printed
\* nothing and returned 3.
C8_DryRun ==
    R.pc # "idle" /\ R.dry_run =>
        /\ R.log.notify_calls = <<>>
        /\ R.log.attempts = <<>>
        /\ R.log.update_returned =>
              /\ R.pc = "done"
              /\ R.log.prints = 1
              /\ R.exit_code = {SeverityCode(R.level)}
        /\ ~R.log.update_returned =>
              /\ R.log.prints = 0
              /\ R.pc = "done" => R.exit_code = {3}

\* A dry run for a site with a webhook configured was classified WARN,
\* printed once and returned 2.
C8_Witness ==
    /\ R.pc = "done"
    /\ R.dry_run
    /\ R.site_id = "feed"
    /\ R.level = "WARN"
    /\ R.log.prints = 1
    /\ R.exit_code = {2}

\* C9: when the dry run and the real run of a pair have both finished, they
\* have returned the same code and left the same file, whatever the channels
\* of the real run did.
C9_DryRunDoesNotInterfere ==
    (\A p \in Procs : run[p].pc = "done") =>
        /\ run[1].exit_code = run[2].exit_code
        /\ store = store2

\* A pair finished with WARN: the dry run printed, the real run sent an
\* email, and both changed the history file.
C9_Witness ==
    /\ \A p \in Procs : run[p].pc = "done"
    /\ run[1].dry_run /\ ~run[2].dry_run
    /\ run[1].exit_code = {2}
    /\ Len(run[2].log.attempts) = 1
    /\ run[2].log.attempts[1].channel = "email"
    /\ run[2].log.attempts[1].sent
    /\ store # run[1].store0

\* C10: the attempts of a notify call are at most email then webhook, each at
\* most once and only with its variable set; only the last attempt can have
\* sent, so the webhook is tried only after the email channel was skipped or
\* failed and nothing is tried after a success.
C10_ChannelOrder ==
    \A p \in Procs :
        LET a == run[p].log.attempts IN
        /\ Len(a) <= 2
        /\ \A i \in 1..Len(a) : \A j \in 1..Len(a) :
              i < j => a[i].channel = "email" /\ a[j].channel = "webhook"
        /\ \A i \in 1..Len(a) :
              /\ a[i].channel \in {"email", "webhook"}
              /\ a[i].channel = "email" => run[p].email_address # {}
              /\ a[i].channel = "webhook" => run[p].webhook_url # {}
              /\ i < Len(a) => ~a[i].sent

\* Both channels were tried in order and both failed.
C10_Witness ==
    /\ R.pc = "done"
    /\ R.fetch_ok
    /\ Len(R.log.attempts) = 2
    /\ R.log.attempts[1].channel = "email" /\ ~R.log.attempts[1].sent
    /\ R.log.attempts[2].channel = "webhook" /\ ~R.log.attempts[2].sent
    /\ R.log.prints = 1

\* A run whose notify call has returned or been left.
Notified(r) == r.pc = "done" /\ r.log.notify_calls # <<>>

\* Some channel of the run's notify call sent the report.
SomeChannelSent(r) ==
    \E i \in 1..Len(r.log.attempts) : r.log.attempts[i].sent

\* C11: a notify call writes the report to the console exactly when no
\* channel sent it: once when every channel was skipped or failed, never when
\* a channel succeeded, and nothing is printed before the channels were
\* tried; with neither secret resolvable no channel is attempted and the one
\* console report is all the call does.
C11_ConsoleIffNoChannelSent ==
    \A p \in Procs :
        LET r == run[p] IN
        /\ r.pc \in {"email", "webhook"} => r.log.prints = 0
        /\ Notified(r) =>
              /\ r.log.prints = (IF SomeChannelSent(r) THEN 0 ELSE 1)
              /\ (~Resolved(r.email_address) /\ ~Resolved(r.webhook_url)) =>
                    /\ r.log.attempts = <<>>
                    /\ r.log.prints = 1

\* The email channel failed, the webhook sent: nothing on the console.
C11_Witness ==
    /\ Notified(R)
    /\ Len(R.log.attempts) = 2
    /\ ~R.log.attempts[1].sent
    /\ R.log.attempts[2].sent
    /\ R.log.prints = 0

\* C12: a notify call returns the code of its severity argument (INFO 0,
\* WARN 2, FAIL 3) whatever the channels did -- unset, sent, reported a
\* failure or raised; a channel that raised counts as not sent and no
\* exception leaves notify.
C12_NotifyReturnsSeverityCode ==
    \A p \in Procs :
        LET r == run[p] IN
        /\ Notified(r) =>
              /\ r.log.notify_returns = <<SeverityCode(r.notify_level)>>
              /\ ~r.raised
        /\ \A i \in 1..Len(r.log.attempts) :
              r.log.attempts[i].result = "raised" => ~r.log.attempts[i].sent

\* Both channels raised and the WARN report still came back as 2.
C12_Witness ==
    /\ Notified(R)
    /\ R.notify_level = "WARN"
    /\ Len(R.log.attempts) = 2
    /\ R.log.attempts[1].result = "raised"
    /\ R.log.attempts[2].result = "raised"
    /\ R.log.notify_returns = <<2>>
    /\ R.exit_code = {2}

\* The sites with a record in the file, and a site's checksum_history there
\* (an unparsable file holds nothing).
PersistedSites(file) == IF file.ok THEN DOMAIN file.data ELSE {}

PersistedHistory(file, site_id) ==
    IF site_id \in PersistedSites(file)
    THEN file.data[site_id].history_checksums
    ELSE <<>>

\* The latest direct call of update_metrics.
LastCall == CHOOSE c \in calls.last : TRUE

PairwiseDistinct(seq) ==
    \A i \in 1..Len(seq) : \A j \in 1..Len(seq) : i # j => seq[i] # seq[j]

NoAdjacentEqual(seq) ==
    \A i \in 1..Len(seq) : i < Len(seq) => seq[i] # seq[i + 1]

\* The most recent k entries of seq, in arrival order (0 <= k <= Len(seq)).
MostRecent(seq, k) == [i \in 1..k |-> seq[Len(seq) - k + i]]

Min(a, b) == IF a <= b THEN a ELSE b

\* C13 as stated: after N pairwise-distinct checksums were given for one site
\* in sequence, every call with the same window w >= 0 and every read and
\* write succeeding, the persisted checksum_history is the most recent
\* min(N, w) of them in arrival order and holds at most w entries.
C13_HistoryIsLastWindow ==
    \A w \in WindowSamples :
        (/\ w >= 0
         /\ calls.fed # <<>>
         /\ calls.windows = {w}
         /\ calls.clean
         /\ PairwiseDistinct(calls.fed))
        => LET h == PersistedHistory(store, WatchedSite) IN
           /\ h = MostRecent(calls.fed, Min(Len(calls.fed), w))
           /\ Len(h) <= w

\* C14 as stated: the persisted checksum_history of a site never holds two
\* adjacent equal entries, and an update whose checksum equals the last
\* entry of the site's persisted history leaves the length of that history
\* unchanged (all reads and writes succeeding).
C14_RepeatKeepsLength ==
    [][LET c == CHOOSE x \in calls'.last : TRUE
           before == PersistedHistory(store, c.site_id)
           after == PersistedHistory(store', c.site_id)
       IN  /\ \A s \in StoreSites :
                 NoAdjacentEqual(PersistedHistory(store', s))
           /\ (/\ calls'.clean
               /\ before # <<>>
               /\ before[Len(before)] = c.checksum)
              => Len(after) = Len(before)]_vars

\* C14, amended: the persisted checksum_history of a site never holds two
\* adjacent equal entries; an update whose checksum equals the last entry of
\* the history it reads appends nothing, so what a successful write stores
\* is the end of the history read, and it is the whole of it, with the same
\* length, when that history is no longer than the window or the window
\* is 0; a smaller or negative window shortens it.
C14_RepeatAppendsNothing ==
    [][LET c == CHOOSE x \in calls'.last : TRUE
           w == c.checksum_window
           read == PersistedHistory(
                      [ok |-> TRUE, data |-> load_metrics(store, c.readable)],
                      c.site_id)
           after == PersistedHistory(store', c.site_id)
       IN  /\ \A s \in StoreSites :
                 NoAdjacentEqual(PersistedHistory(store', s))
           /\ (/\ c.outcome = "ok"
               /\ read # <<>>
               /\ read[Len(read)] = c.checksum)
              => /\ Len(after) <= Len(read)
                 /\ after = MostRecent(read, Len(after))
                 /\ (Len(read) <= w \/ w = 0) => after = read
                 /\ (w < Len(read) /\ w # 0) => Len(after) < Len(read)]_vars

\* The third call repeats the second checksum: the history keeps its two
\* entries.
C14_Witness ==
    /\ calls.n = 3
    /\ calls.fed = <<11, 12, 12>>
    /\ calls.windows = {2}
    /\ calls.clean
    /\ PersistedHistory(store, WatchedSite) = <<11, 12>>

\* C15: compare_with_history gives the all-clear result when it finds no
\* record of the site (none stored, or the file cannot be read); otherwise
\* changed holds iff the stored checksum differs from the current one,
\* size_dropped_50pct iff last_size > 0 and the current size is strictly
\* below half of last_size, and anomaly iff both.
C15_Comparison ==
    \A c \in calls.compared :
        LET found == c.readable /\ WatchedSite \in PersistedSites(store)
            res == c.result
        IN  IF ~found
            THEN /\ ~res.changed
                 /\ res.size_change_pct.num = 0
                 /\ ~res.size_dropped_50pct
                 /\ ~res.anomaly
            ELSE LET h == store.data[WatchedSite] IN
                 /\ res.changed <=> h.checksum # c.current_checksum
                 /\ res.size_dropped_50pct <=>
                        (h.last_size > 0 /\ 2 * c.current_size < h.last_size)
                 /\ h.last_size = 0 => ~res.size_dropped_50pct
                 /\ res.anomaly <=> (res.changed /\ res.size_dropped_50pct)

\* Changed content of exactly half the recorded size: not flagged.
C15_Witness ==
    \E c \in calls.compared :
        /\ c.readable
        /\ WatchedSite \in PersistedSites(store)
        /\ store.data[WatchedSite].last_size = 4
        /\ c.current_size = 2
        /\ c.result.changed
        /\ ~c.result.size_dropped_50pct
        /\ ~c.result.anomaly

\* The file held, when the run started, a record of the run's site with the
\* digest and the size of what the run fetched.
SameBytesAsRecorded(r) ==
    /\ r.site_id \in PersistedSites(r.store0)
    /\ r.store0.data[r.site_id].checksum = r.checksum
    /\ r.store0.data[r.site_id].last_size = r.size

\* Status 2xx and every configured check of the report passed.
AllChecksPass(c) ==
    /\ c.status
    /\ c.min_bytes
    /\ \A t \in c.content_type : t
    /\ \A h \in c.html_selectors : h.valid
    /\ \A x \in c.schema : x.valid

\* C16 as stated: a run that fetched the bytes the previous run recorded,
\* with a 2xx status and all configured checks passing, returns 0, performs
\* the update, and leaves checksum_history with the same length.
C16_UnchangedRunReturnsZero ==
    (/\ R.pc = "done"
     /\ R.fetch_ok
     /\ SameBytesAsRecorded(R)
     /\ AllChecksPass(ReportOf(R)))
    => /\ R.exit_code = {0}
       /\ R.log.updates = 1
       /\ Len(PersistedHistory(store, R.site_id))
             = Len(PersistedHistory(R.store0, R.site_id))

\* Process p's update_metrics call read the file, wrote it and returned.
Completed(p) ==
    /\ calls.upd[p].pc = "returned"
    /\ calls.upd[p].readable
    /\ calls.upd[p].outcome = "ok"

\* The write of p's update was atomic: no other process read, opened or
\* wrote the file between p's open for writing and the end of its write.
AtomicWrite(p) == calls.upd[p].undisturbed

InSeq(x, seq) == \E i \in 1..Len(seq) : seq[i] = x

\* C17 as stated: when two updates for different sites interleave, each
\* read and each write of the file being atomic and succeeding, the file
\* holds both sites' updates once both have returned.
C17_DifferentSitesBothPersisted ==
    \A p \in Procs : \A q \in Procs :
        (/\ p # q
         /\ Completed(p) /\ Completed(q)
         /\ AtomicWrite(p) /\ AtomicWrite(q)
         /\ calls.upd[p].site_id # calls.upd[q].site_id)
        => /\ calls.upd[p].site_id \in PersistedSites(store)
           /\ store.data[calls.upd[p].site_id].checksum = calls.upd[p].checksum

\* C18: of two updates of the same site with different checksums, both
\* reading and writing the file successfully, the later writer q erases the
\* checksum of the other one p when both read the file before either wrote
\* it (the history q wrote is built on what q read, which has no entry of
\* p), whereas if q read what p had written, with a window of at least 2,
\* the history ends with p's checksum followed by q's.
C18_SameSiteLostUpdate ==
    \A p \in Procs : \A q \in Procs :
        (/\ p # q
         /\ Completed(p) /\ Completed(q)
         /\ calls.upd[p].site_id = calls.upd[q].site_id
         /\ calls.upd[p].checksum # calls.upd[q].checksum
         /\ store = [ok |-> TRUE, data |-> calls.upd[q].written])
        => LET site == calls.upd[p].site_id
               h == PersistedHistory(store, site)
               read == PersistedHistory(
                          [ok |-> TRUE, data |-> calls.upd[q].loaded], site)
           IN  /\ (/\ calls.upd[q].loaded = calls.upd[p].loaded
                   /\ ~InSeq(calls.upd[p].checksum, read))
                  => ~InSeq(calls.upd[p].checksum, h)
               /\ (/\ calls.upd[q].loaded = calls.upd[p].written
                   /\ calls.upd[q].checksum_window >= 2
                   /\ calls.upd[p].checksum_window >= 0)
                  => /\ Len(h) >= 2
                     /\ h[Len(h) - 1] = calls.upd[p].checksum
                     /\ h[Len(h)] = calls.upd[q].checksum

\* Both processes read the empty file, both wrote: the file holds only the
\* checksum of the second writer, where one call after the other would have
\* left two entries.
C18_Witness ==
    /\ Completed(1) /\ Completed(2)
    /\ calls.upd[1].site_id = WatchedSite
    /\ calls.upd[2].site_id = WatchedSite
    /\ calls.upd[1].checksum = 11
    /\ calls.upd[2].checksum = 12
    /\ calls.upd[1].checksum_window = 2
    /\ calls.upd[2].checksum_window = 2
    /\ calls.upd[1].loaded = << >>
    /\ calls.upd[2].loaded = << >>
    /\ PersistedHistory(store, WatchedSite) = <<12>>

\* C19 as stated: a run whose write of the history file failed has its
\* update aborted by the failure, which reaches the top-level handler, and
\* returns 3.
C19_WriteFailureIsFail ==
    (/\ R.pc = "done"
     /\ \E i \in 1..Len(R.log.saves) : R.log.saves[i] # "ok")
    => /\ ~R.log.update_returned
       /\ R.raised
       /\ R.exit_code = {3}

\* C20 as stated: an update that does not damage the file itself (its write
\* succeeds or does not touch the file) keeps every site that was persisted
\* and leaves the records of all sites but its own as they were, also when
\* it cannot read the file.
C20_RecordsNeverDeleted ==
    [][LET c == CHOOSE x \in calls'.last : TRUE IN
       c.outcome # "dump_error" =>
          \A s \in PersistedSites(store) :
             /\ s \in PersistedSites(store')
             /\ s # c.site_id => store'.data[s] = store.data[s]]_vars

\* ---------------------------------------------------------------------
\* Configuration loading (SpecConfig)
\* ---------------------------------------------------------------------

\* The load_config call made so far, as pairs of request and result.
ConfigCalls == {<<q, r>> \in calls.request \X calls.result : TRUE}

\* The call read a file that exists and parses as JSON.
ParsedFile(q, r) ==
    /\ q.parsable
    /\ \E p \in r.path : p \in q.exists /\ ~IsYaml(p)

\* The entries of the file passed explicitly that the validator rejects.
RejectedSites(q) ==
    {s \in SampleSiteIds : \E d \in q.data : SiteConfigInvalid(d[s])}

\* C21: on a parsable file holding any mix of valid and malformed entries,
\* load_config does not fail and returns a map whose keys are exactly the
\* entries that pass validation, each with its validated record.
C21_MalformedEntriesAreIsolated ==
    \A c \in ConfigCalls :
        LET q == c[1]
            r == c[2]
        IN  (q.config_path # {} /\ ParsedFile(q, r)) =>
                /\ r.raised = {}
                /\ \E m \in r.returned : \E d \in q.data :
                      /\ DOMAIN m = SampleSiteIds \ RejectedSites(q)
                      /\ \A s \in DOMAIN m : m[s] = _validate_site_config(d[s])

\* A file with one well-formed entry and one entry without url was loaded:
\* the result holds the well-formed entry alone.
C21_Witness ==
    \E c \in ConfigCalls :
        /\ ParsedFile(c[1], c[2])
        /\ \E d \in c[1].data :
              /\ d["s1"] = JDict(MinimalEntry)
              /\ d["s2"] = JDict([MinimalEntry EXCEPT !.url = {}])
        /\ c[2].raised = {}
        /\ \E m \in c[2].returned : DOMAIN m = {"s1"}

\* C22: every record load_config returns has the url of its entry and a
\* content kind among html, csv, excel, pdf, binary; an entry with no url, no
\* kind or a kind outside the five is not in the returned map.
C22_ReturnedKindsAreValid ==
    \A c \in ConfigCalls :
        \A m \in c[2].returned :
            /\ \A s \in DOMAIN m : m[s].type \in valid_types
            /\ \A d \in c[1].data : \A s \in SampleSiteIds :
                  IF s \in DOMAIN m
                  THEN /\ Kind(d[s]) = "dict"
                       /\ Val(d[s]).url = {JStr(m[s].url)}
                       /\ Val(d[s]).type = {JStr(m[s].type)}
                  ELSE TRUE
            /\ \A d \in c[1].data : \A s \in SampleSiteIds :
                  (/\ Kind(d[s]) = "dict"
                   /\ \/ Val(d[s]).url = {}
                      \/ Val(d[s]).type = {}
                      \/ Val(d[s]).type = {JStr("json")})
                      => s \notin DOMAIN m

\* A file with an entry of kind "json" and an entry of kind csv was loaded:
\* the result holds the csv entry alone.
C22_Witness ==
    \E c \in ConfigCalls :
        /\ \E d \in c[1].data :
              /\ Kind(d["s1"]) = "dict" /\ Val(d["s1"]).type = {JStr("json")}
              /\ Kind(d["s2"]) = "dict" /\ Val(d["s2"]).type = {JStr("csv")}
        /\ \E m \in c[2].returned : DOMAIN m = {"s2"} /\ m["s2"].type = "csv"

\* C23: every record load_config returns has a history window of at least 1
\* and a min_bytes of at least 0.
C23_WindowPositiveMinBytesNonNegative ==
    \A c \in ConfigCalls :
        \A m \in c[2].returned : \A s \in DOMAIN m :
            m[s].checksum_window >= 1 /\ m[s].min_bytes >= 0

\* C24: called without a path, load_config loads a production file when one
\* exists, otherwise an example file when one exists, and otherwise raises
\* the not-found error; it raises that error in no other case. (The JSON
\* files parse.)
C24_DefaultResolutionLoads ==
    \A c \in ConfigCalls :
        LET q == c[1]
            r == c[2]
        IN  (q.config_path = {} /\ q.parsable) =>
                IF q.exists \cap {yaml_path, json_path} # {}
                THEN /\ r.raised = {}
                     /\ r.path \subseteq {yaml_path, json_path}
                     /\ r.returned # {}
                ELSE IF q.exists \cap {example_yaml, example_json} # {}
                THEN /\ r.raised = {}
                     /\ r.path \subseteq {example_yaml, example_json}
                     /\ r.returned # {}
                ELSE r.raised = {"FileNotFoundError"}

\* ---------------------------------------------------------------------
\* The check engine (SpecChecks)
\* ---------------------------------------------------------------------

\* The site asks for a schema check.
WantsSchema(site_config) ==
    site_config.expected_columns # <<>> \/ site_config.min_rows # 0

\* C25: _run_checks_for_type returns a summary for every body, header set and
\* status: status and min_bytes are always reported, a csv or excel body the
\* parser cannot read gives a schema sub-result with valid = false and an
\* error, and a selector that is not found or cannot be evaluated gives an
\* html sub-result with valid = false.
C25_ChecksReportInsteadOfRaising ==
    \A c \in calls.checked :
        LET cfg == c.site_config
            ch == c.summary.checks
        IN  /\ ch.status = (c.status_code >= 200 /\ c.status_code <= 299)
            /\ ch.min_bytes = (Len(c.content.bytes) >= cfg.min_bytes)
            /\ (cfg.type = "csv" /\ WantsSchema(cfg) /\ c.content.csv = {})
                  => \E s \in ch.schema : ~s.valid /\ s.error /\ ~s.skipped
            /\ (/\ cfg.type = "excel" /\ WantsSchema(cfg)
                /\ c.has_openpyxl /\ c.content.xlsx = {})
                  => \E s \in ch.schema : ~s.valid /\ s.error /\ ~s.skipped
            /\ (/\ cfg.type = "html"
                /\ \E i \in 1..Len(cfg.selectors) :
                      cfg.selectors[i] \notin c.content.sels)
                  => ch.html_selectors = {[valid |-> FALSE]}

\* A csv site with expected columns was checked on a body the csv module
\* cannot read, with a non-2xx status.
C25_Witness ==
    \E c \in calls.checked :
        /\ c.site_config.type = "csv"
        /\ c.site_config.expected_columns = <<"a", "b">>
        /\ c.content = UnparsableBody
        /\ c.status_code = 300
        /\ ~c.summary.checks.status
        /\ \E s \in c.summary.checks.schema : ~s.valid /\ s.error

\* C26 as stated: for a csv site with expected_columns or min_rows set, the
\* schema sub-result has missing_columns = expected columns absent from the
\* header, row_count = number of data rows, and valid iff missing_columns is
\* empty and row_count >= min_rows.
C26_CsvSchemaVerdict ==
    \A c \in calls.checked :
        (c.site_config.type = "csv" /\ WantsSchema(c.site_config)) =>
            \E s \in c.summary.checks.schema :
                /\ \A t \in c.content.csv :
                      /\ s.missing_columns =
                            SeqToSet(c.site_config.expected_columns)
                                \ SeqToSet(t.cols)
                      /\ s.row_count = t.rows
                /\ s.valid <=> /\ s.missing_columns = {}
                               /\ s.row_count >= c.site_config.min_rows

\* C26 amended: the same for a body the csv module can read; for a body it
\* cannot read the sub-result has valid = false, no missing column, row_count
\* 0 and an error.
C26_ParsedCsvSchemaVerdict ==
    \A c \in calls.checked :
        (c.site_config.type = "csv" /\ WantsSchema(c.site_config)) =>
            \E s \in c.summary.checks.schema :
                /\ \A t \in c.content.csv :
                      /\ s.missing_columns =
                            SeqToSet(c.site_config.expected_columns)
                                \ SeqToSet(t.cols)
                      /\ s.row_count = t.rows
                      /\ s.valid <=> /\ s.missing_columns = {}
                                     /\ s.row_count >= c.site_config.min_rows
                /\ c.content.csv = {} =>
                      /\ ~s.valid /\ s.error
                      /\ s.missing_columns = {} /\ s.row_count = 0
                /\ c.summary.row_count = {s.row_count}

\* A csv site expecting columns a and b with at least one row was checked on
\* a body with header a alone and no data row.
C26_Witness ==
    \E c \in calls.checked :
        /\ c.site_config.type = "csv"
        /\ c.site_config.expected_columns = <<"a", "b">>
        /\ c.site_config.min_rows = 1
        /\ c.content.csv = {[cols |-> <<"a">>, rows |-> 0]}
        /\ \E s \in c.summary.checks.schema :
              ~s.valid /\ s.missing_columns = {"b"} /\ s.row_count = 0

\* ---------------------------------------------------------------------
\* fetch (SpecFetch)
\* ---------------------------------------------------------------------

\* C27: fetch makes at most max_retries + 1 requests (3 with the default 2);
\* every request before the last one made ended in a transport error; a
\* response ends the call, which returns it; the call raises only after a
\* non-transport error, after max_retries + 1 transport errors, or when it
\* could make no request; and while the call runs the number of requests
\* still allowed is positive and shrinks with each request, so it ends.
C27_FetchBoundedRetries ==
    LET f == calls.fetch
        made == Len(f.log)
    IN  f.pc # "idle" =>
        /\ made <= IF f.max_retries + 1 > 0 THEN f.max_retries + 1 ELSE 0
        /\ f.max_retries = 2 => made <= 3
        /\ \A i \in 1..(made - 1) : f.log[i] = "transport_error"
        /\ f.pc = "loop" =>
              /\ made = f.attempt
              /\ f.max_retries >= 0 => made <= f.max_retries
              /\ \A i \in 1..made : f.log[i] = "transport_error"
        /\ f.pc = "done" => (f.returned = {}) # (f.raised = {})
        /\ (f.pc = "done" /\ f.returned # {}) => f.log[made] = "response"
        /\ (made > 0 /\ f.log[made] = "response")
              => f.pc = "done" /\ f.returned # {}
        /\ (f.pc = "done" /\ f.raised # {}) =>
              \/ made = 0
              \/ f.log[made] = "other_error"
              \/ made = f.max_retries + 1 /\ f.log[made] = "transport_error"

\* A call with the default max_retries made two requests that ended in
\* transport errors and returned the response of the third.
C27_Witness ==
    /\ calls.fetch.pc = "done"
    /\ calls.fetch.max_retries = 2
    /\ calls.fetch.log = <<"transport_error", "transport_error", "response">>
    /\ calls.fetch.returned # {}

\* ---------------------------------------------------------------------
\* Order of the steps of a run (Spec)
\* ---------------------------------------------------------------------

\* What compare_with_history can give for the run on the file as it was when
\* the run began: the comparison with the record the previous run left, or,
\* when the file cannot be read, the result for a site without record.
ComparisonsWithPrevious(r) ==
    { compare_with_history(r.size, r.checksum,
          get_site_metrics(load_metrics(r.store0, readable), r.site_id)) :
      readable \in BOOLEAN }

\* C28: in a run whose fetch succeeded the checks come before the
\* comparison, the comparison and the level before the history update, and
\* the return of the history update before any call of notify, any channel
\* attempt and any console report; the comparison is made with the file as
\* the previous run left it, and the file is not written before the update.
C28_StepOrder ==
    (R.pc # "idle" /\ R.fetch_ok) =>
        /\ R.summary # {}
        /\ R.historical # {} =>
              /\ R.historical \subseteq ComparisonsWithPrevious(R)
              /\ R.level = _determine_level(CHOOSE s \in R.summary : TRUE,
                                            CHOOSE h \in R.historical : TRUE)
        /\ R.historical = {} => R.level = "none" /\ R.log.updates = 0
        /\ R.log.updates = 0 => store = R.store0 /\ R.log.saves = <<>>
        /\ ~R.log.update_returned =>
              /\ R.log.notify_calls = <<>>
              /\ R.log.attempts = <<>>
              /\ R.log.prints = 0
        /\ R.log.update_returned => R.log.updates = 1 /\ Len(R.log.saves) = 1

\* A second run for a site fetched a changed body: it was compared with the
\* record of the first run, the update was written, and then a channel was
\* attempted.
C28_Witness ==
    /\ R.pc = "done"
    /\ R.fetch_ok
    /\ R.site_id \in DOMAIN R.store0.data
    /\ \E h \in R.historical : h.changed
    /\ R.log.saves = <<"ok">>
    /\ store # R.store0
    /\ R.log.attempts # <<>>

\* C29: a run whose fetch failed makes no history update and leaves the
\* history file exactly as it found it, in a dry run and in a real run.
C29_FetchFailureKeepsHistory ==
    \A p \in SeqProcs :
        FetchFailedIn(run[p]) =>
            /\ store = run[p].store0
            /\ run[p].log.updates = 0
            /\ run[p].log.saves = <<>>
            /\ run[p].all_metrics = {}

\* A real run whose fetch failed, for a site that already had a record,
\* finished after attempting a channel; the record is as before.
C29_Witness ==
    /\ R.pc = "done"
    /\ FetchFailedIn(R)
    /\ ~R.dry_run
    /\ R.log.attempts # <<>>
    /\ R.site_id \in DOMAIN store.data
    /\ store = R.store0

\* ---------------------------------------------------------------------
\* The persisted record after an update (SpecStore)
\* ---------------------------------------------------------------------

\* C30: after every call of update_metrics that returns and was made with a
\* window of at least 1, the site has a persisted record whose
\* checksum_history is non-empty and ends with the record's last checksum,
\* the checksum of the call.
C30_HistoryEndsWithLastChecksum ==
    [][LET c == CHOOSE x \in calls'.last : TRUE IN
       (c.checksum_window >= 1 /\ c.outcome # "mkdir_error") =>
          /\ c.site_id \in PersistedSites(store')
          /\ LET history == PersistedHistory(store', c.site_id) IN
                /\ history # <<>>
                /\ history[Len(history)] = store'.data[c.site_id].checksum
                /\ history[Len(history)] = c.checksum]_vars

====
